---- MODULE Spec2Model ----
(***************************************************************************)
(* Model of the request orchestration layer of allm-go: the Client's       *)
(* lock-protected configuration, snapshot(), the setters, Chat() with its  *)
(* validation and request assembly, and the retry engine retryWithBackoff  *)
(* with per-attempt deadlines, error classification and hook/log emission; *)
(* Stream() with its goroutine, the unbuffered out channel and its         *)
(* consumer; Embed() and Models().                                         *)
(***************************************************************************)
EXTENDS Integers, Sequences, FiniteSets, TLC

\* ------------------------------------------------------------------ bounds
\* Largest max-retries value New() is given in the main specification.
MaxRetriesBound == 2
\* Largest max-retries value in the concurrent specification.
ConcRetriesBound == 1
\* Number of setter calls made during one behaviour.
MaxSets == 1
\* Number of setter calls made during one behaviour of the concurrent spec.
ConcSets == 2
\* The configured maxInputLen (WithMaxInputLen), scaled down.
InputLimit == 3
\* Largest number of content chunks a backend stream yields before its done
\* chunk.
MaxChunks == 2
\* Largest max-retries value in the validation specification.
ValRetriesBound == 1
\* Number of setter calls made during one behaviour of the validation spec.
ValSets == 1
\* Largest max-retries value New() is given together with other retry delays
\* than the default ones, in the retry-option specification.
RetryBound == 2
\* Number of setter calls made during one behaviour of that specification.
RetrySets == 2

\* -------------------------------------------------------- program constants
MaxRetryAttempts == 10
\* time.Duration, an int64 of nanoseconds, is modelled as a signed integer of
\* DurationBits bits that counts milliseconds.
DurationBits == 24
MaxDuration == 2^(DurationBits - 1) - 1
MinDuration == -(2^(DurationBits - 1))
MinRetryDelay == 1
MaxRetryMaxDelay == 300000
\* retryBaseDelay and retryMaxDelay as New sets them (1s, 30s)
DefaultRetryBaseDelay == 1000
DefaultRetryMaxDelay == 30000
MaxModelNameLength == 256
MaxToolNameLength == 64
MaxMaxTokens == 1000000
\* temperature and penalties are modelled in tenths (2.0 -> 20)
MaxTemperature == 20
MinPresencePenalty == -20
MaxPresencePenalty == 20
MinFrequencyPenalty == -20
MaxFrequencyPenalty == 20

\* ------------------------------------------------------------------ values
Calls == {1, 2}

NilProvider == "nil"
\* "p1" is a backend that also implements Embedder and ModelLister, "p0" one
\* that implements Provider only.
Providers == {NilProvider, "p1", "p0"}
\* s.provider.(Embedder) succeeds
Embedders == {"p1"}
\* p.(ModelLister) succeeds
ModelListers == {"p1"}
Models == {"m1", "m2"}
Prompts == {"", "sys"}

\* A Tool is modelled by the length of its Name.
ToolLists == {<< >>, <<[name |-> 4]>>}

\* Sentinel errors of the package (allm.go var block).
ErrNoProvider == "ErrNoProvider"
ErrEmptyInput == "ErrEmptyInput"
ErrInputTooLong == "ErrInputTooLong"
ErrRateLimited == "ErrRateLimited"
ErrTimeout == "ErrTimeout"
ErrCanceled == "ErrCanceled"
ErrEmptyResponse == "ErrEmptyResponse"

\* Errors that are no sentinel of the package.
GenericErr == "api error"
CtxCanceledErr == "context.Canceled"
CtxDeadlineErr == "context.DeadlineExceeded"
InvalidRequestErr == "invalid request"
EmbedUnsupportedErr == "allm: provider does not support embeddings"
ModelsUnsupportedErr == "allm: provider does not support model listing"
InputExceedsErr == "input exceeds max length"
\* An API error of a backend whose message quotes the request's credentials.
SecretErr == "api error 401: Authorization: Bearer sk-..."
\* fmt.Errorf("%w: %w", allm.ErrRateLimited, err) of a provider, err being
\* an API error whose message quotes the request's credentials.
WrappedSecretErr == "rate limited: api error 429: Authorization: Bearer sk-..."
\* What sanitizeError puts in the place of an error it redacts.
RedactedErr == "provider error (details redacted for security)"
NoErr == "nil"

\* The errors errors.Is finds in the chain of err: err itself and what it
\* wraps.
Chain(err) ==
    IF err = WrappedSecretErr THEN {err, ErrRateLimited, SecretErr} ELSE {err}

\* errors.Is(err, target)
Is(err, target) == target \in Chain(err)

\* err.Error(), as the sequence of its words.
ErrorText(err) ==
    CASE err = SecretErr ->
            <<"api error 401", ": ", "Authorization:", "Bearer ", "sk-">>
      [] err = WrappedSecretErr ->
            <<"allm: rate limited", ": ", "api error 429", ": ",
              "Authorization:", "Bearer ", "sk-">>
      [] OTHER -> <<err>>

\* What a backend's Complete can return as its error (NoErr = a response).
BackendResults ==
    {NoErr, ErrRateLimited, ErrTimeout, ErrEmptyResponse, ErrCanceled,
     GenericErr, CtxCanceledErr, CtxDeadlineErr}

\* ... and with the API errors that quote credentials.
AllResults == BackendResults \cup {SecretErr, WrappedSecretErr}

\* Hook event types.
HookRequest == "request"
HookSuccess == "success"
HookError == "error"
HookRetry == "retry"

\* ------------------------------------------------------------ stream chunks
\* A StreamChunk: Content (content chunks carry their ordinal), Done, Error.
Chunk(n) == [content |-> n, done |-> FALSE, err |-> NoErr]
DoneChunk == [content |-> 0, done |-> TRUE, err |-> NoErr]
ErrChunk(e) == [content |-> 0, done |-> FALSE, err |-> e]
\* No chunk is being sent.
NoChunk == [content |-> 0, done |-> FALSE, err |-> "none"]

ContentChunks(n) == [i \in 1..n |-> Chunk(i)]

\* What the channel returned by a backend's Stream does: the chunks it
\* yields, and whether the backend closes it afterwards or stalls.
StreamOf(seq, closes) == [seq |-> seq, closes |-> closes]

\* n content chunks and a done chunk, then the channel is closed.
CompleteStreams ==
    {StreamOf(ContentChunks(n) \o <<DoneChunk>>, TRUE) : n \in 0..MaxChunks}

BackendStreams ==
    CompleteStreams \cup
    { StreamOf(<<Chunk(1), ErrChunk(GenericErr)>>, TRUE),
      StreamOf(<<ErrChunk(ErrRateLimited), Chunk(1), DoneChunk>>, TRUE),
      StreamOf(<<Chunk(1)>>, TRUE),
      StreamOf(<<Chunk(1)>>, FALSE) }

\* The Client methods a caller can enter.
Kinds == {"chat", "stream", "embed", "models"}

\* The input arguments the callers pass to Embed, each text by its length.
EmbedInputs == {<< >>, <<2>>, <<InputLimit, 1>>, <<1, InputLimit + 1>>}

\* ---------------------------------------------------------------- messages
\* A Message: content is len(Content), images a sequence of
\* [mime, data = len(Data)], calls = len(ToolCalls), results a sequence of
\* len(ToolResult.Content).
Msg(role, n) ==
    [role |-> role, content |-> n, images |-> << >>, calls |-> 0,
     results |-> << >>]

\* The message lists the callers pass to Chat.
MsgInputs ==
    { << >>,
      << Msg("user", 0) >>,
      << Msg("user", 2) >>,
      << Msg("user", InputLimit + 1) >>,
      << [role |-> "user", content |-> 1,
          images |-> << [mime |-> "image/bmp", data |-> 1] >>,
          calls |-> 0, results |-> << >>] >> }

AllowedImageMIMETypes == {"image/jpeg", "image/png", "image/gif", "image/webp"}

\* strings.ToLower on the MIME types of the modelled images and on the words
\* of the modelled error messages.
ToLower(mime) ==
    CASE mime = "IMAGE/PNG" -> "image/png"
      [] mime = "Image/Jpeg" -> "image/jpeg"
      [] mime = "Authorization:" -> "authorization:"
      [] mime = "Bearer " -> "bearer "
      [] OTHER -> mime

\* A message with one image, one with one tool result, one with a tool call.
ImageMsg(mime, n) ==
    [role |-> "user", content |-> 0,
     images |-> << [mime |-> mime, data |-> n] >>, calls |-> 0,
     results |-> << >>]
ResultMsg(n) ==
    [role |-> "tool", content |-> 0, images |-> << >>, calls |-> 0,
     results |-> << n >>]
CallMsg ==
    [role |-> "assistant", content |-> 0, images |-> << >>, calls |-> 1,
     results |-> << >>]

\* The messages of the validation specification: every content length up to
\* one past the limit, images of every kind validateRequest tells apart, tool
\* results and a tool call.
ValMsgs ==
    {Msg("user", n) : n \in 0..(InputLimit + 1)}
    \cup {ImageMsg(m, 1) : m \in {"image/jpeg", "image/bmp", "", "IMAGE/PNG"}}
    \cup {ImageMsg("image/png", n) : n \in {0, InputLimit, InputLimit + 1}}
    \cup {ResultMsg(n) : n \in {0, 1, InputLimit, InputLimit + 1}}
    \cup {CallMsg}

\* The message lists of the validation specification: none, one message,
\* two empty messages, and two messages the first of which leaves room for
\* one byte.
ValInputs ==
    {<< >>}
    \cup {<< m >> : m \in ValMsgs}
    \cup {<< Msg("user", 0), Msg("user", 0) >>}
    \cup {<< Msg("user", InputLimit - 1), m >> : m \in ValMsgs}

\* The tool lists of the validation specification.
ValToolLists ==
    {<< >>, <<[name |-> 0]>>, <<[name |-> MaxToolNameLength]>>,
     <<[name |-> 4], [name |-> MaxToolNameLength + 1]>>}

RECURSIVE SumSeq(_)
SumSeq(s) == IF s = << >> THEN 0 ELSE Head(s) + SumSeq(Tail(s))

ImageLens(m) == [i \in 1..Len(m.images) |-> m.images[i].data]

\* Faulty variant of TotalLen (sensitivity of C16): image data is not
\* counted.
TotalLenNoImages(messages) ==
    SumSeq([i \in 1..Len(messages) |->
              messages[i].content + SumSeq(messages[i].results)])

\* totalLen of validateMessages
TotalLen(messages) ==
    SumSeq([i \in 1..Len(messages) |->
              messages[i].content + SumSeq(ImageLens(messages[i]))
              + SumSeq(messages[i].results)])

\* Faulty variant of HasContent (sensitivity of C15): a message counts as
\* content whatever it holds.
HasContentAnyMessage(messages) == Len(messages) > 0

\* hasContent of validateMessages
HasContent(messages) ==
    \E i \in 1..Len(messages) :
        \/ messages[i].content # 0
        \/ Len(messages[i].images) > 0
        \/ messages[i].calls > 0
        \/ Len(messages[i].results) > 0

validateMessages(messages, maxInputLen) ==
    IF ~HasContent(messages) THEN ErrEmptyInput
    ELSE IF TotalLen(messages) > maxInputLen THEN ErrInputTooLong
    ELSE NoErr

\* Faulty variant of buildRequest (sensitivity of C25): the system message
\* is put after the caller's messages.
buildRequestAppend(messages, s, o) ==
    [messages |-> IF s.systemPrompt # ""
                  THEN messages \o
                       << [role |-> "system", content |-> Len(s.systemPrompt),
                           images |-> << >>, calls |-> 0,
                           results |-> << >>] >>
                  ELSE messages,
     model |-> s.model,
     maxTokens |-> o.maxTokens,
     temperature |-> o.temperature,
     presencePenalty |-> o.presencePenalty,
     frequencyPenalty |-> o.frequencyPenalty,
     tools |-> s.tools]

\* buildRequest: s is the call's snapshot, o the immutable options.
buildRequest(messages, s, o) ==
    [messages |-> IF s.systemPrompt # ""
                  THEN << [role |-> "system", content |-> Len(s.systemPrompt),
                           images |-> << >>, calls |-> 0,
                           results |-> << >>] >> \o messages
                  ELSE messages,
     model |-> s.model,
     maxTokens |-> o.maxTokens,
     temperature |-> o.temperature,
     presencePenalty |-> o.presencePenalty,
     frequencyPenalty |-> o.frequencyPenalty,
     tools |-> s.tools]

ModelNameLen(m) == Len(m)

\* Faulty variant of validateRequest (sensitivity of C17): the loop over the
\* images is missing.
validateRequestNoImages(req) ==
    IF ModelNameLen(req.model) > MaxModelNameLength THEN InvalidRequestErr
    ELSE IF req.temperature < 0 THEN InvalidRequestErr
    ELSE IF req.temperature > MaxTemperature THEN InvalidRequestErr
    ELSE IF req.presencePenalty < MinPresencePenalty
            \/ req.presencePenalty > MaxPresencePenalty THEN InvalidRequestErr
    ELSE IF req.frequencyPenalty < MinFrequencyPenalty
            \/ req.frequencyPenalty > MaxFrequencyPenalty THEN InvalidRequestErr
    ELSE IF req.maxTokens < 0 THEN InvalidRequestErr
    ELSE IF req.maxTokens > MaxMaxTokens THEN InvalidRequestErr
    ELSE IF \E i \in 1..Len(req.tools) :
                req.tools[i].name = 0 \/ req.tools[i].name > MaxToolNameLength
         THEN InvalidRequestErr
    ELSE NoErr

validateRequest(req) ==
    IF ModelNameLen(req.model) > MaxModelNameLength THEN InvalidRequestErr
    ELSE IF req.temperature < 0 THEN InvalidRequestErr
    ELSE IF req.temperature > MaxTemperature THEN InvalidRequestErr
    ELSE IF req.presencePenalty < MinPresencePenalty
            \/ req.presencePenalty > MaxPresencePenalty THEN InvalidRequestErr
    ELSE IF req.frequencyPenalty < MinFrequencyPenalty
            \/ req.frequencyPenalty > MaxFrequencyPenalty THEN InvalidRequestErr
    ELSE IF req.maxTokens < 0 THEN InvalidRequestErr
    ELSE IF req.maxTokens > MaxMaxTokens THEN InvalidRequestErr
    ELSE IF \E i \in 1..Len(req.tools) :
                req.tools[i].name = 0 \/ req.tools[i].name > MaxToolNameLength
         THEN InvalidRequestErr
    ELSE IF \E i \in 1..Len(req.messages) :
              \E j \in 1..Len(req.messages[i].images) :
                 \/ req.messages[i].images[j].mime = ""
                 \/ ToLower(req.messages[i].images[j].mime)
                       \notin AllowedImageMIMETypes
                 \/ req.messages[i].images[j].data = 0
         THEN InvalidRequestErr
    ELSE NoErr

\* ------------------------------------------------------------ retry engine
\* Faulty variant of isRetryable (sensitivity of C1): empty responses are
\* forgotten.
isRetryableNoEmpty(err) == err \in {ErrRateLimited, ErrTimeout}

\* Faulty variant of isRetryable (sensitivity of C4): cancellation is taken
\* for transient.
isRetryableWithCanceled(err) ==
    err \in {ErrRateLimited, ErrTimeout, ErrEmptyResponse, ErrCanceled}

\* Faulty variant of isRetryable (sensitivity of C3): every error is retried.
isRetryableAll(err) == TRUE

isRetryable(err) ==
    Is(err, ErrRateLimited) \/ Is(err, ErrTimeout) \/ Is(err, ErrEmptyResponse)

\* Faulty variant of classifyError (sensitivity of C7): the context's state
\* is not told apart, every ended context counts as canceled.
classifyErrorNoDeadline(err, ctxErr) ==
    IF err \in {ErrRateLimited, ErrEmptyResponse, ErrTimeout} THEN err
    ELSE IF ctxErr # "live" THEN ErrCanceled
    ELSE err

\* Faulty variant of classifyError (sensitivity of C32): the error is
\* returned as it came.
classifyErrorRaw(err, ctxErr) == err

\* classifyError(err, ctx): ctxErr is ctx.Err() of the attempt context,
\* "live" (nil), "deadline" (DeadlineExceeded) or "canceled" (Canceled).
classifyError(err, ctxErr) ==
    IF Is(err, ErrRateLimited) \/ Is(err, ErrEmptyResponse)
       \/ Is(err, ErrTimeout) THEN err
    ELSE IF ctxErr = "deadline" THEN ErrTimeout
    ELSE IF ctxErr = "canceled" THEN ErrCanceled
    ELSE err

\* What classifyError reads of the attempt context: nothing ("unread") when
\* err is nil or passes its first test, ctx.Err() otherwise.
CtxRead(err, ctxErr) ==
    IF err = NoErr \/ Is(err, ErrRateLimited) \/ Is(err, ErrEmptyResponse)
       \/ Is(err, ErrTimeout)
    THEN "unread" ELSE ctxErr

\* The patterns of containsSensitive.
SensitivePatterns ==
    {"sk-ant-", "sk-", "api_key", "apikey", "bearer ", "token=", "key=",
     "authorization:"}

\* containsSensitive(msg): a pattern occurs in the lowered message.
containsSensitive(msg) ==
    \E i \in 1..Len(msg) : ToLower(msg[i]) \in SensitivePatterns

\* The sentinels sanitizeError lets pass (ErrProvider is wrapped by no
\* modelled error).
SafeSentinels ==
    {ErrRateLimited, ErrTimeout, ErrCanceled, ErrEmptyResponse, ErrNoProvider,
     ErrEmptyInput, ErrInputTooLong}

\* sanitizeError: nil and errors that are or wrap a sentinel are returned as
\* they are; another error is replaced when its message holds a pattern.
sanitizeError(err) ==
    IF err = NoErr THEN NoErr
    ELSE IF \E s \in SafeSentinels : Is(err, s) THEN err
    ELSE IF containsSensitive(ErrorText(err)) THEN RedactedErr
    ELSE err

\* Faulty variant of maxAttempts (sensitivity of C21): max-retries is
\* ignored, one attempt is made.
maxAttemptsNoRetry(maxRetries) == 1

\* Faulty variant of maxAttempts (sensitivity of C2): one attempt too many.
maxAttemptsOffByOne(maxRetries) == 2 + maxRetries

\* maxAttempts := 1 + s.maxRetries
maxAttempts(maxRetries) == 1 + maxRetries

\* time.Duration(f) of a float64 f outside the range of int64: the result
\* depends on the implementation (the smallest int64 on amd64, the largest
\* where the conversion saturates).
ConvOutOfRange == {MinDuration, MaxDuration}

\* delay := time.Duration(float64(base) * math.Pow(2, float64(attempt))),
\* every value it can get.
ExpDelays(attempt, base) ==
    IF base > MaxDuration \div (2^attempt) THEN ConvOutOfRange
    ELSE {base * (2^attempt)}

\* rand.Float64(): zero, a half, and the largest value below one.
Jitters == {"none", "half", "most"}

Abs(x) == IF x < 0 THEN -x ELSE x

\* jitter := time.Duration(float64(delay) * 0.25 * rand.Float64()); the
\* conversion truncates towards zero.
jitterOf(d, j) ==
    LET m == CASE j = "none" -> 0
               [] j = "half" -> Abs(d) \div 8
               [] j = "most" -> IF d = 0 THEN 0 ELSE (Abs(d) + 3) \div 4 - 1
    IN IF d < 0 THEN -m ELSE m

\* Addition of two time.Duration values wraps around.
Wrap(v) ==
    ((v - MinDuration + 2^DurationBits) % (2^DurationBits)) + MinDuration

\* retryDelay after its first line: exp is the exponential delay, j the
\* random number.
retryDelay(exp, max, j) ==
    LET d == IF exp > max THEN max ELSE exp IN Wrap(d + jitterOf(d, j))

\* Every value retryDelay(attempt, base, max) can return, the random numbers
\* being drawn from js.
retryDelays(attempt, base, max, js) ==
    {retryDelay(exp, max, j) : exp \in ExpDelays(attempt, base), j \in js}

\* Faulty variant of the backoff select (sensitivity of C5): the timer
\* branch is taken without looking at ctx.Done().
TimerBranchAlways(done, d) == TRUE

\* select { case <-time.After(delay): ; case <-ctx.Done(): }  A timer of a
\* positive delay is armed on entry, so a context that is already done wins
\* and otherwise the first of the two events ends the select; a timer of a
\* delay that is not positive has fired on entry and can be chosen whatever
\* the context.
TimerBranch(done, d) == ~done \/ d <= 0

\* Faulty variant of Returned (sensitivity of C23): what op returned is
\* handed on with the error.
ReturnedAsIs(res, err) == [resp |-> res, err |-> err]

\* What retryWithBackoff returns after op returned res: `return result, nil`
\* or `return zero, lastErr`.
Returned(res, err) ==
    IF err = NoErr THEN [resp |-> res, err |-> NoErr]
    ELSE [resp |-> "none", err |-> err]

\* Faulty variant of Lock() (sensitivity of C9): the writer does not wait
\* for the readers.
CanLockIgnoringReaders(rs) == TRUE

\* c.mu.Lock() of a setter succeeds when no reader holds the RWMutex.
CanLock(rs) == rs = {}

\* Faulty variant of snapshot() (sensitivity of C10): the read lock is kept
\* after the copy.
ReleaseNever(rs, c) == rs

\* defer c.mu.RUnlock() of snapshot()
Release(rs, c) == rs \ {c}

\* context.WithTimeout(ctx, s.timeout): a fresh deadline, already canceled
\* when the parent is.
NewAttemptCtx(done) == IF done THEN "canceled" ELSE "live"

\* ---------------------------------------------------------- StreamToWriter
\* The error of a Writer whose Write fails.
WriteErr == "write error"

\* wret of a Stream call that is consumed by something else than
\* StreamToWriter, and of a StreamToWriter call that is in its loop.
NoWriter == "noWriter"
Running == "running"

\* []byte(chunk.Content): content n stands for a text of two bytes, content
\* 0 for the empty text.
Text(n) == IF n = 0 THEN << >> ELSE <<n, n>>

\* What a Write of the caller's Writer can do: write everything; write
\* nothing and fail; write the first byte and fail.
WriteOutcomes == {"ok", "fail", "short"}

\* w.Write(p) with the outcome o: the bytes of w afterwards, and the error.
Write(w, p, o) ==
    IF o = "ok" THEN [w |-> w \o p, err |-> NoErr]
    ELSE IF o = "short" /\ Len(p) > 0
    THEN [w |-> Append(w, p[1]), err |-> WriteErr]
    ELSE [w |-> w, err |-> WriteErr]

\* Faulty variant of StreamToWriter (sensitivity of C34): the error of Write
\* is dropped.
StreamToWriterBlindWrite(w, chunk, o) ==
    IF chunk.err # NoErr THEN [w |-> w, ret |-> chunk.err]
    ELSE [w |-> Write(w, Text(chunk.content), o).w,
          ret |-> IF chunk.done THEN NoErr ELSE Running]

\* The body of StreamToWriter's range loop for one received chunk: the
\* bytes of w afterwards, and what StreamToWriter returns (Running: it goes
\* on to receive).
StreamToWriter(w, chunk, o) ==
    IF chunk.err # NoErr THEN [w |-> w, ret |-> chunk.err]
    ELSE LET r == Write(w, Text(chunk.content), o)
         IN IF r.err # NoErr THEN [w |-> r.w, ret |-> r.err]
            ELSE IF chunk.done THEN [w |-> r.w, ret |-> NoErr]
            ELSE [w |-> r.w, ret |-> Running]

\* ------------------------------------------------------- hook callbacks
\* What the registered hook does besides observing: on an event of type on
\* it calls the setter of field with v.  NoHookSet: it calls no setter.
NoHookSet == [on |-> "never", field |-> "model", v |-> "m1"]

\* The hooks that call SetModel on one type of event, or SetProvider(nil)
\* before an attempt.
HookSets ==
    {[on |-> t, field |-> "model", v |-> "m2"] :
        t \in {HookRequest, HookRetry, HookSuccess, HookError}}
    \cup {[on |-> t, field |-> "provider", v |-> NilProvider] :
             t \in {HookRequest, HookRetry}}

\* ------------------------------------------------------------------- state
VARIABLES
    cfg,          \* Client fields the setters write
    opt,          \* Client fields fixed by New's options
    readers,      \* callers holding c.mu.RLock
    sets,         \* number of setter calls made
    setBudget,    \* number of setter calls the environment makes
    active,       \* the callers of this behaviour
    env,          \* what callers pass, what the backend can return and
                  \* what is recorded of the setter calls
    pc,           \* position of each caller
    msgs,         \* messages argument of the call
    snap,         \* clientState being filled by snapshot()
    req,          \* *Request built by buildRequest
    attempt,      \* loop variable of retryWithBackoff
    lastErr,      \* lastErr of retryWithBackoff
    ctxDone,      \* the caller's ctx is canceled
    actx,         \* attemptCtx.Err()
    result,       \* what the call returned
    invocations,  \* calls of provider.Complete made by the call
    backoffs,     \* retryDelay computations made by the call
    hooks,        \* HookEvents delivered to s.hook by the call
    logs,         \* lines delivered to s.logger by the call
    outs,         \* what the backend returned, with the ctx.Err() classified
    seen,         \* configurations held by the Client during the snapshot
    cancelAt,     \* the invocation in flight when ctx was canceled, or 0
    kind,         \* the Client method each caller entered
    input,        \* input argument of Embed (the length of each text)
    chunks,       \* what the channel returned by provider.Stream will yield
    pos,          \* number of chunks Stream has received from that channel
    held,         \* the chunk Stream's goroutine is sending on out
    recv,         \* the chunks the consumer has received from out
    closed,       \* out is closed (the goroutine has returned)
    consuming,    \* the consumer is still receiving from out
    delay,        \* delay of the backoff select, as retryDelay returned it
    sent,         \* the (backend, request) pairs the call's invocations got
    lastSet,      \* per field, the argument of the last setter call on it
    stale,        \* per call, the fields a setter was called on since it began
    written,      \* the bytes StreamToWriter has written to w
    wret          \* what StreamToWriter returned, or where it is

\* The state of one Stream call.
streamVars == <<chunks, pos, held, recv, closed, consuming>>

\* What is recorded of a behaviour for the claims about setters and
\* invocations.
histVars == <<sent, lastSet, stale>>

\* The state of the StreamToWriter call that consumes a Stream call.
writerVars == <<written, wret>>

vars == <<cfg, opt, readers, sets, setBudget, active, env, pc, msgs, snap, req,
          attempt, lastErr, ctxDone, actx, result, invocations, backoffs,
          hooks, logs, outs, seen, cancelAt, kind, input, chunks, pos, held,
          recv, closed, consuming, delay, sent, lastSet, stale, written,
          wret>>

\* Positions at which the caller is inside snapshot(), holding the read lock.
SnapPcs == {"snapProvider", "snapSystemPrompt", "snapModel", "snapTools"}

NoSnap == [provider |-> NilProvider, systemPrompt |-> "", model |-> "",
           tools |-> << >>]
NoReq == [messages |-> << >>, model |-> "", maxTokens |-> 0,
          temperature |-> 0, presencePenalty |-> 0, frequencyPenalty |-> 0,
          tools |-> << >>]
NoResult == [resp |-> "none", err |-> "none"]
\* No setter has been called on the field.
Unset == "unset"

\* New(provider, opts...): timeout, maxInputLen and the retry delays are set;
\* the sampling defaults stay zero.
InitCommon ==
    /\ cfg = [provider |-> "p1", systemPrompt |-> "", model |-> "m1",
              tools |-> << >>]
    /\ readers = {}
    /\ sets = 0
    /\ pc = [c \in Calls |-> "idle"]
    /\ msgs = [c \in Calls |-> << >>]
    /\ snap = [c \in Calls |-> NoSnap]
    /\ req = [c \in Calls |-> NoReq]
    /\ attempt = [c \in Calls |-> 0]
    /\ lastErr = [c \in Calls |-> NoErr]
    /\ ctxDone = [c \in Calls |-> FALSE]
    /\ actx = [c \in Calls |-> "none"]
    /\ result = [c \in Calls |-> NoResult]
    /\ invocations = [c \in Calls |-> 0]
    /\ backoffs = [c \in Calls |-> 0]
    /\ hooks = [c \in Calls |-> << >>]
    /\ logs = [c \in Calls |-> << >>]
    /\ outs = [c \in Calls |-> << >>]
    /\ seen = [c \in Calls |-> {}]
    /\ cancelAt = [c \in Calls |-> 0]
    /\ kind = [c \in Calls |-> "none"]
    /\ input = [c \in Calls |-> << >>]
    /\ chunks = [c \in Calls |-> StreamOf(<< >>, FALSE)]
    /\ pos = [c \in Calls |-> 0]
    /\ held = [c \in Calls |-> NoChunk]
    /\ recv = [c \in Calls |-> << >>]
    /\ closed = [c \in Calls |-> FALSE]
    /\ consuming = [c \in Calls |-> TRUE]
    /\ delay = [c \in Calls |-> 0]
    /\ sent = [c \in Calls |-> {}]
    /\ lastSet = [f \in DOMAIN cfg |-> Unset]
    /\ stale = [c \in Calls |-> {}]
    /\ written = [c \in Calls |-> << >>]
    /\ wret = [c \in Calls |-> NoWriter]

\* built says that New returned the Client (no option panicked).
Options(maxRetries, hook, logger) ==
    [maxRetries |-> maxRetries, hook |-> hook, logger |-> logger,
     maxInputLen |-> InputLimit, maxTokens |-> 0, temperature |-> 0,
     presencePenalty |-> 0, frequencyPenalty |-> 0,
     retryBaseDelay |-> DefaultRetryBaseDelay,
     retryMaxDelay |-> DefaultRetryMaxDelay, built |-> TRUE]

\* panic(...) inside an option: New does not return, the field is not
\* written.
Panicked(client) == [client EXCEPT !.built = FALSE]

\* Faulty variant of WithMaxRetries (sensitivity of C26): the upper limit is
\* not tested.
WithMaxRetriesUnbounded(client, n) ==
    IF n < 0 THEN Panicked(client) ELSE [client EXCEPT !.maxRetries = n]

WithMaxRetries(client, n) ==
    IF n < 0 \/ n > 10 THEN Panicked(client)
    ELSE [client EXCEPT !.maxRetries = n]

WithRetryBaseDelay(client, d) ==
    IF d < MinRetryDelay THEN Panicked(client)
    ELSE [client EXCEPT !.retryBaseDelay = d]

WithRetryMaxDelay(client, d) ==
    IF d < MinRetryDelay THEN Panicked(client)
    ELSE IF d > MaxRetryMaxDelay THEN Panicked(client)
    ELSE [client EXCEPT !.retryMaxDelay = d]

\* What New is given: the arguments of the three retry options.
NewArgs(n, base, max) ==
    [maxRetries |-> n, retryBaseDelay |-> base, retryMaxDelay |-> max]

\* New(provider, WithMaxRetries(..), WithRetryBaseDelay(..),
\* WithRetryMaxDelay(..), WithHook(..), WithLogger(..)): the options run in
\* their order until one panics.
New(a) ==
    LET c0 == Options(0, TRUE, TRUE)
        c1 == WithMaxRetries(c0, a.maxRetries)
        c2 == IF c1.built THEN WithRetryBaseDelay(c1, a.retryBaseDelay)
              ELSE c1
    IN IF c2.built THEN WithRetryMaxDelay(c2, a.retryMaxDelay) ELSE c2

\* One caller, every retry setting, a hook and a logger registered.
Init ==
    /\ InitCommon
    /\ active = {1}
    /\ setBudget = MaxSets
    /\ env = [inputs |-> MsgInputs, results |-> BackendResults,
              kinds |-> [c \in Calls |-> Kinds],
              prompts |-> {0, 2, InputLimit + 1},
              streams |-> BackendStreams, texts |-> EmbedInputs,
              providers |-> Providers, cancelers |-> Calls,
              tools |-> ToolLists,
              embedResults |-> {NoErr, ErrRateLimited, GenericErr},
              tracked |-> {}, jitters |-> {"none"}, partials |-> {"none"},
              writers |-> {NoWriter}, writes |-> {"ok"},
              hookSet |-> NoHookSet]
    /\ \E n \in 0..MaxRetriesBound : opt = Options(n, TRUE, TRUE)

\* Two concurrent callers and more setter calls, no observers.
InitConc ==
    /\ InitCommon
    /\ active = Calls
    /\ setBudget = ConcSets
    /\ env = [inputs |-> {<< Msg("user", 2) >>},
              results |-> {NoErr, ErrRateLimited},
              kinds |-> [c \in Calls |->
                           IF c = 1 THEN {"chat"}
                           ELSE {"stream", "embed", "models"}],
              prompts |-> {2},
              streams |-> {StreamOf(<<Chunk(1)>>, TRUE)},
              texts |-> {<<2>>},
              providers |-> {NilProvider, "p1"}, cancelers |-> {1},
              tools |-> ToolLists,
              embedResults |-> {NoErr, ErrRateLimited},
              tracked |-> {}, jitters |-> {"none"}, partials |-> {"none"},
              writers |-> {NoWriter}, writes |-> {"ok"},
              hookSet |-> NoHookSet]
    /\ \E n \in 0..ConcRetriesBound : opt = Options(n, FALSE, FALSE)

\* New with the sampling options at the ends of their ranges.
EdgeOptions(maxRetries) ==
    [Options(maxRetries, TRUE, TRUE) EXCEPT
        !.temperature = MaxTemperature,
        !.presencePenalty = MinPresencePenalty,
        !.frequencyPenalty = MaxFrequencyPenalty,
        !.maxTokens = MaxMaxTokens]

\* ... and with one of them one step outside its range.
BadOptions ==
    LET o == EdgeOptions(ValRetriesBound) IN
    { [o EXCEPT !.temperature = -1],
      [o EXCEPT !.temperature = MaxTemperature + 1],
      [o EXCEPT !.presencePenalty = MinPresencePenalty - 1],
      [o EXCEPT !.presencePenalty = MaxPresencePenalty + 1],
      [o EXCEPT !.frequencyPenalty = MinFrequencyPenalty - 1],
      [o EXCEPT !.frequencyPenalty = MaxFrequencyPenalty + 1],
      [o EXCEPT !.maxTokens = -1],
      [o EXCEPT !.maxTokens = MaxMaxTokens + 1] }

\* What the callers and the backend of the validation specification do.
ValEnv(inputs) ==
    [inputs |-> inputs, results |-> {NoErr, ErrRateLimited},
     kinds |-> [c \in Calls |-> Kinds],
     prompts |-> {0, InputLimit, InputLimit + 1},
     streams |-> {StreamOf(<<Chunk(1)>>, TRUE)},
     texts |-> {<<2>>},
     providers |-> {NilProvider, "p0"}, cancelers |-> {1},
     tools |-> ValToolLists, embedResults |-> {NoErr}, tracked |-> {},
     jitters |-> {"none"}, partials |-> {"none"},
              writers |-> {NoWriter}, writes |-> {"ok"},
              hookSet |-> NoHookSet]

\* One caller and a backend that answers or is rate limited.  Either the
\* sampling options are at the ends of their ranges and the inputs have every
\* shape the validators tell apart, or one option is out of range and the
\* inputs are an empty and a plain one.
InitVal ==
    /\ InitCommon
    /\ active = {1}
    /\ setBudget = ValSets
    /\ \/ /\ opt \in {EdgeOptions(n) : n \in 0..ValRetriesBound}
          /\ env = ValEnv(ValInputs)
       \/ /\ opt \in BadOptions
          /\ env = ValEnv({<< >>, << Msg("user", 1) >>})

\* The retry delays New is given: none, the smallest, one above the default
\* maximum, one whose double is no Duration any more.
BaseDelays == {0, MinRetryDelay, 40000, 2^(DurationBits - 2)}
MaxDelays == {0, MinRetryDelay, DefaultRetryMaxDelay, MaxRetryMaxDelay,
              MaxRetryMaxDelay + 1}

\* What the callers and the backend of the retry-option specification do
\* when nothing else is said: one input, a backend that answers or is rate
\* limited and returns no value with an error, no jitter, a caller that does
\* not cancel, no setter call recorded.
RetryEnv(given) ==
    [inputs |-> {<< Msg("user", 1), Msg("user", 2) >>},
     results |-> {NoErr, ErrRateLimited},
     kinds |-> [c \in Calls |-> {"chat", "embed"}],
     prompts |-> {1},
     streams |-> {StreamOf(<<Chunk(1)>>, TRUE)},
     texts |-> {<<2>>},
     providers |-> {"p1"}, cancelers |-> {},
     tools |-> {<<[name |-> 4]>>},
     embedResults |-> {NoErr, ErrRateLimited},
     tracked |-> {}, jitters |-> {"none"}, partials |-> {"none"},
              writers |-> {NoWriter}, writes |-> {"ok"},
              hookSet |-> NoHookSet,
     given |-> given]

DefaultArgs(n) == NewArgs(n, DefaultRetryBaseDelay, DefaultRetryMaxDelay)

\* The backend results of the retry-option specification that quote
\* credentials.
SecretResults == {NoErr, ErrRateLimited, SecretErr, WrappedSecretErr}

\* One caller of a Client that New was asked to build, in one of five
\* settings.  Max-retries is anything from one below to one above its range.
\* Or max-retries is small and: the delays are anything from below to above
\* their ranges, with every jitter and a caller that may cancel; or the
\* backend's errors quote credentials and come with a value; or the hook
\* calls a setter on one type of event; or the setters are called and
\* recorded, around calls of every method.
InitRetry ==
    /\ InitCommon
    /\ \/ /\ \E n \in (-1)..(MaxRetryAttempts + 1) :
                env = RetryEnv(DefaultArgs(n))
          /\ setBudget = 0
       \/ /\ \E n \in 0..RetryBound, b \in BaseDelays, m \in MaxDelays :
                env = [RetryEnv(NewArgs(n, b, m)) EXCEPT
                          !.jitters = Jitters, !.cancelers = {1}]
          /\ setBudget = 0
       \/ /\ \E n \in 0..RetryBound :
                env = [RetryEnv(DefaultArgs(n)) EXCEPT
                          !.results = SecretResults,
                          !.embedResults = SecretResults,
                          !.partials = {"partial"}]
          /\ setBudget = 0
       \/ /\ \E n \in 0..RetryBound, h \in HookSets :
                env = [RetryEnv(DefaultArgs(n)) EXCEPT !.hookSet = h]
          /\ setBudget = 0
       \/ /\ env = [RetryEnv(DefaultArgs(0)) EXCEPT
                       !.kinds = [c \in Calls |-> Kinds],
                       !.results = {NoErr}, !.embedResults = {NoErr},
                       !.providers = {NilProvider, "p0"},
                       !.tracked = DOMAIN cfg]
          /\ setBudget = RetrySets
    /\ opt = New(env.given)
    /\ active = IF opt.built THEN {1} ELSE {}

\* ----------------------------------------------------------------- setters
\* Faulty variant of Store (sensitivity of C24): the assignment is lost.
StoreNothing(client, field, v) == client

\* c.provider = p, c.model = model, c.systemPrompt = prompt, c.tools = tools
Store(client, field, v) == [client EXCEPT ![field] = v]

\* A setter: Lock, the assignment, Unlock.
Set(field, v) ==
    /\ sets < setBudget
    /\ CanLock(readers)
    /\ cfg' = Store(cfg, field, v)
    /\ sets' = sets + 1
    /\ seen' = [c \in Calls |->
                  IF pc[c] \in SnapPcs THEN seen[c] \cup {cfg'} ELSE seen[c]]
    /\ IF field \in env.tracked
       THEN /\ lastSet' = [lastSet EXCEPT ![field] = v]
            /\ stale' = [c \in Calls |->
                           IF pc[c] # "idle" THEN stale[c] \cup {field}
                           ELSE stale[c]]
       ELSE UNCHANGED <<lastSet, stale>>
    /\ UNCHANGED <<kind, input, streamVars, delay, sent>>
    /\ UNCHANGED <<opt, readers, setBudget, active, env, pc, msgs, snap, req,
                   attempt, lastErr, ctxDone, actx, result, invocations,
                   backoffs, hooks, logs, outs, cancelAt>>
    /\ UNCHANGED writerVars

SetProvider == \E p \in env.providers : Set("provider", p)
SetModel == \E m \in Models : Set("model", m)
SetSystemPrompt == \E s \in Prompts : Set("systemPrompt", s)
SetTools == \E t \in env.tools : Set("tools", t)

\* ---------------------------------------------------------------- snapshot
\* A method that begins with s := c.snapshot() is entered; snapshot() takes
\* the read lock.
Enter(c, k) ==
    /\ c \in active
    /\ pc[c] = "idle"
    /\ k \in env.kinds[c]
    /\ kind' = [kind EXCEPT ![c] = k]
    /\ readers' = readers \cup {c}
    /\ pc' = [pc EXCEPT ![c] = "snapProvider"]
    /\ seen' = [seen EXCEPT ![c] = {cfg}]
    /\ stale' = [stale EXCEPT ![c] = {}]
    /\ UNCHANGED <<streamVars, delay, sent, lastSet>>
    /\ UNCHANGED <<cfg, opt, sets, setBudget, active, env, snap, req, attempt,
                   lastErr, ctxDone, actx, result, invocations, backoffs,
                   hooks, logs, outs, cancelAt>>

\* Chat(ctx, messages)
ChatCall(c) ==
    /\ Enter(c, "chat")
    /\ \E m \in env.inputs : msgs' = [msgs EXCEPT ![c] = m]
    /\ UNCHANGED input
    /\ UNCHANGED writerVars

\* Complete(ctx, prompt) is Chat with the prompt as the one user message.
CompleteCall(c) ==
    /\ Enter(c, "chat")
    /\ \E n \in env.prompts : msgs' = [msgs EXCEPT ![c] = << Msg("user", n) >>]
    /\ UNCHANGED input
    /\ UNCHANGED writerVars

\* Stream(ctx, messages): the snapshot is taken by the caller, before the
\* goroutine starts.
StreamCall(c) ==
    /\ Enter(c, "stream")
    /\ \E m \in env.inputs : msgs' = [msgs EXCEPT ![c] = m]
    /\ \E w \in env.writers : wret' = [wret EXCEPT ![c] = w]
    /\ UNCHANGED <<input, written>>

\* Embed(ctx, input...)
EmbedCall(c) ==
    /\ Enter(c, "embed")
    /\ \E i \in env.texts : input' = [input EXCEPT ![c] = i]
    /\ UNCHANGED msgs
    /\ UNCHANGED writerVars

SnapField(c, at, field, next) ==
    /\ pc[c] = at
    /\ snap' = [snap EXCEPT ![c][field] = cfg[field]]
    /\ pc' = [pc EXCEPT ![c] = next]
    /\ UNCHANGED <<kind, input, streamVars, delay, histVars>>
    /\ UNCHANGED <<cfg, opt, readers, sets, setBudget, active, env, msgs,
                   req, attempt, lastErr, ctxDone, actx, result, invocations,
                   backoffs, hooks, logs, outs, seen, cancelAt>>
    /\ UNCHANGED writerVars

\* The fields of the clientState literal, in the order it lists them; the
\* last one is read by ChatBody.
SnapProvider(c) == SnapField(c, "snapProvider", "provider", "snapSystemPrompt")
SnapSystemPrompt(c) ==
    SnapField(c, "snapSystemPrompt", "systemPrompt", "snapModel")
SnapModel(c) == SnapField(c, "snapModel", "model", "snapTools")

\* ------------------------------------------------------------ hook, logger
\* Faulty variant of Event (sensitivity of C30): the event carries the loop
\* index, which counts from 0.
EventZeroBased(type, att, err) ==
    [type |-> type, attempt |-> att - 1, err |-> err]

Event(type, att, err) == [type |-> type, attempt |-> att, err |-> err]

Emit(c, ev) == IF opt.hook THEN Append(hooks[c], ev) ELSE hooks[c]

\* The hook is given an event on which it calls a setter.
HookCalls(type) == opt.hook /\ env.hookSet.on = type

\* Faulty variant of RunHook (sensitivity of C38): the hook is called while
\* the caller still holds the read lock of snapshot().
RunHookUnderLock(c, type, rs) ==
    IF HookCalls(type)
    THEN /\ CanLock(rs \cup {c})
         /\ cfg' = Store(cfg, env.hookSet.field, env.hookSet.v)
         /\ sets' = sets + 1
    ELSE UNCHANGED <<cfg, sets>>

\* s.hook(HookEvent{...}) runs on the calling goroutine and returns before
\* the caller goes on: a setter called in it takes c.mu.Lock(), which
\* waits for the readers rs, writes the field and unlocks.
RunHook(c, type, rs) ==
    IF HookCalls(type)
    THEN /\ CanLock(rs)
         /\ cfg' = Store(cfg, env.hookSet.field, env.hookSet.v)
         /\ sets' = sets + 1
    ELSE UNCHANGED <<cfg, sets>>
Log(c, level, att, err) ==
    IF opt.logger
    THEN Append(logs[c], [level |-> level, attempt |-> att, err |-> err])
    ELSE logs[c]

\* ------------------------------------------------------------ method bodies
\* Faulty variant of Retried (sensitivity of C14): Stream too goes through
\* the retry engine.
RetriedAlso(k) == TRUE

\* Chat and Embed hand their backend call to retryWithBackoff; Stream calls
\* provider.Stream itself.
Retried(k) == k \in {"chat", "embed"}

\* Faulty variant of Fail (sensitivity of C27): Stream's goroutine drops the
\* error and returns without sending a chunk or closing out.
FailAsResult(c, err) ==
    /\ result' = [result EXCEPT ![c] = [resp |-> "none", err |-> err]]
    /\ pc' = [pc EXCEPT ![c] = "done"]
    /\ UNCHANGED held
    /\ UNCHANGED <<hooks, actx, invocations, chunks, sent, cfg, sets>>

\* Faulty variant of Fail (sensitivity of C36): the request event is
\* emitted on entry, before the checks.
FailAfterRequestEvent(c, err) ==
    /\ IF kind[c] = "stream"
       THEN /\ held' = [held EXCEPT ![c] = ErrChunk(err)]
            /\ pc' = [pc EXCEPT ![c] = "sendLast"]
            /\ UNCHANGED result
       ELSE /\ result' = [result EXCEPT ![c] = [resp |-> "none", err |-> err]]
            /\ pc' = [pc EXCEPT ![c] = "done"]
            /\ UNCHANGED held
    /\ hooks' = [hooks EXCEPT ![c] = Append(@, [type |-> HookRequest,
                                                attempt |-> 1, err |-> NoErr])]
    /\ UNCHANGED <<actx, invocations, chunks, sent, cfg, sets>>

\* An error found before the backend is called: Chat and Embed return it,
\* Stream's goroutine sends it as a chunk and returns.
Fail(c, err) ==
    /\ IF kind[c] = "stream"
       THEN /\ held' = [held EXCEPT ![c] = ErrChunk(err)]
            /\ pc' = [pc EXCEPT ![c] = "sendLast"]
            /\ UNCHANGED result
       ELSE /\ result' = [result EXCEPT ![c] = [resp |-> "none", err |-> err]]
            /\ pc' = [pc EXCEPT ![c] = "done"]
            /\ UNCHANGED held
    /\ UNCHANGED <<hooks, actx, invocations, chunks, sent, cfg, sets>>

\* Faulty variant of Captured (sensitivity of C28): the backend, the model
\* and the tools are read from the Client at each invocation.
CapturedLive(s, r, client) ==
    [provider |-> client.provider,
     request |-> [r EXCEPT !.model = client.model, !.tools = client.tools]]

\* What the closure handed to retryWithBackoff calls the backend with: the
\* snapshot's provider and the request built before the loop (req, or the
\* embedReq of Embed, which holds nothing of the configuration); the Client
\* is not read.
Captured(s, r, client) == [provider |-> s.provider, request |-> r]

\* retryWithBackoff is entered: the request event with what the hook does
\* on it, the first attempt context and the first call of op.
StartEngine(c, s, r) ==
    /\ hooks' = [hooks EXCEPT ![c] = Emit(c, Event(HookRequest, 1, NoErr))]
    /\ RunHook(c, HookRequest, readers')
    /\ actx' = [actx EXCEPT ![c] = NewAttemptCtx(ctxDone[c])]
    /\ invocations' = [invocations EXCEPT ![c] = @ + 1]
    /\ sent' = [sent EXCEPT ![c] = @ \cup {Captured(s, r, cfg')}]
    /\ pc' = [pc EXCEPT ![c] = "inflight"]
    /\ UNCHANGED <<result, held, chunks>>

\* streamCtx is made and provider.Stream called; the goroutine reaches its
\* select.
StartStream(c, s, r) ==
    /\ actx' = [actx EXCEPT ![c] = NewAttemptCtx(ctxDone[c])]
    /\ invocations' = [invocations EXCEPT ![c] = @ + 1]
    /\ sent' = [sent EXCEPT ![c] = @ \cup {Captured(s, r, cfg)}]
    /\ \E b \in env.streams : chunks' = [chunks EXCEPT ![c] = b]
    /\ pc' = [pc EXCEPT ![c] = "select"]
    /\ UNCHANGED <<hooks, result, held, cfg, sets>>

\* Faulty variant of FirstError (sensitivity of C39): the provider of the
\* snapshot is not looked at before the request goes to the retry engine.
FirstErrorNoNilCheck(provider, verr, rerr) ==
    IF verr # NoErr THEN verr ELSE rerr

\* Faulty variant of FirstError (sensitivity of C19): the messages are
\* validated before the provider is looked at.
FirstErrorValidationFirst(provider, verr, rerr) ==
    IF verr # NoErr THEN verr
    ELSE IF provider = NilProvider THEN ErrNoProvider
    ELSE rerr

\* The checks of Chat and of Stream's goroutine in their order: the provider,
\* validateMessages (verr), validateRequest (rerr).
FirstError(provider, verr, rerr) ==
    IF provider = NilProvider THEN ErrNoProvider
    ELSE IF verr # NoErr THEN verr
    ELSE rerr

\* Faulty variant of EmbedFirstError (sensitivity of C20): the input is
\* checked before the Embedder assertion.
EmbedFirstErrorInputFirst(provider, texts, maxInputLen) ==
    IF provider = NilProvider THEN ErrNoProvider
    ELSE IF Len(texts) = 0 THEN ErrEmptyInput
    ELSE IF \E i \in 1..Len(texts) : texts[i] > maxInputLen
    THEN InputExceedsErr
    ELSE IF provider \notin Embedders THEN EmbedUnsupportedErr
    ELSE NoErr

\* The checks of Embed in their order: the provider, the Embedder
\* assertion, the empty input, the length of each text.
EmbedFirstError(provider, texts, maxInputLen) ==
    IF provider = NilProvider THEN ErrNoProvider
    ELSE IF provider \notin Embedders THEN EmbedUnsupportedErr
    ELSE IF Len(texts) = 0 THEN ErrEmptyInput
    ELSE IF \E i \in 1..Len(texts) : texts[i] > maxInputLen
    THEN InputExceedsErr
    ELSE NoErr

\* Faulty variant of Validated (sensitivity of C37): the messages of the
\* assembled request are validated, the system message among them.
ValidatedRequest(messages, r) == r.messages

\* What validateMessages is given: the messages argument of the call, before
\* buildRequest has put the system prompt in front of them.
Validated(messages, r) == messages

\* The last field of the snapshot is copied and the read lock released; then
\* the method runs, without the lock, to its first backend call or to its
\* early failure.  Chat and Stream share the steps: provider check,
\* validateMessages, buildRequest, validateRequest.
Body(c) ==
    /\ pc[c] = "snapTools"
    /\ readers' = Release(readers, c)
    /\ LET s == [snap[c] EXCEPT !.tools = cfg.tools]
           r == buildRequest(msgs[c], s, opt)
           verr == validateMessages(Validated(msgs[c], r), opt.maxInputLen)
           rerr == validateRequest(r)
           early == FirstError(s.provider, verr, rerr)
       IN /\ snap' = [snap EXCEPT ![c] = s]
          /\ req' = IF s.provider # NilProvider /\ verr = NoErr
                    THEN [req EXCEPT ![c] = r] ELSE req
          /\ IF early # NoErr THEN Fail(c, early)
             ELSE IF Retried(kind[c]) THEN StartEngine(c, s, r)
             ELSE StartStream(c, s, r)
    /\ UNCHANGED <<opt, setBudget, active, env, msgs, attempt,
                   lastErr, ctxDone, backoffs, logs, outs, seen, cancelAt,
                   kind, input, pos, recv, closed, consuming, delay, lastSet,
                   stale>>
    /\ UNCHANGED writerVars

ChatBody(c) == kind[c] = "chat" /\ Body(c)

StreamBody(c) == kind[c] = "stream" /\ Body(c)

\* Embed after its snapshot: provider check, the Embedder assertion, the
\* input checks, then retryWithBackoff.
EmbedBody(c) ==
    /\ pc[c] = "snapTools"
    /\ kind[c] = "embed"
    /\ readers' = Release(readers, c)
    /\ LET s == [snap[c] EXCEPT !.tools = cfg.tools]
           early == EmbedFirstError(s.provider, input[c], opt.maxInputLen)
       IN /\ snap' = [snap EXCEPT ![c] = s]
          /\ IF early # NoErr THEN Fail(c, early)
             ELSE StartEngine(c, s, NoReq)
    /\ UNCHANGED <<opt, setBudget, active, env, msgs, req, attempt,
                   lastErr, ctxDone, backoffs, logs, outs, seen, cancelAt,
                   kind, input, pos, recv, closed, consuming, delay, lastSet,
                   stale>>
    /\ UNCHANGED writerVars

\* ------------------------------------------------------------------ Models
\* Models(ctx): the provider is read under the read lock (p, kept in the
\* provider field of snap), then listed without retry.
ModelsCall(c) ==
    /\ c \in active
    /\ pc[c] = "idle"
    /\ "models" \in env.kinds[c]
    /\ kind' = [kind EXCEPT ![c] = "models"]
    /\ snap' = [snap EXCEPT ![c].provider = cfg.provider]
    /\ IF cfg.provider = NilProvider
       THEN /\ result' = [result EXCEPT ![c] =
                             [resp |-> "none", err |-> ErrNoProvider]]
            /\ pc' = [pc EXCEPT ![c] = "done"]
            /\ UNCHANGED invocations
       ELSE IF cfg.provider \notin ModelListers
       THEN /\ result' = [result EXCEPT ![c] =
                             [resp |-> "none", err |-> ModelsUnsupportedErr]]
            /\ pc' = [pc EXCEPT ![c] = "done"]
            /\ UNCHANGED invocations
       ELSE /\ invocations' = [invocations EXCEPT ![c] = @ + 1]
            /\ pc' = [pc EXCEPT ![c] = "listing"]
            /\ UNCHANGED result
    /\ UNCHANGED <<input, streamVars, delay, histVars>>
    /\ UNCHANGED <<cfg, opt, readers, sets, setBudget, active, env, msgs, req,
                   attempt, lastErr, ctxDone, actx, backoffs, hooks, logs,
                   outs, seen, cancelAt>>
    /\ UNCHANGED writerVars

\* lister.Models(ctx) returns; Models returns what it returned.
ModelsReturn(c, e) ==
    /\ pc[c] = "listing"
    /\ e \in env.results
    /\ e = CtxCanceledErr => ctxDone[c]
    /\ e # CtxDeadlineErr
    /\ result' = [result EXCEPT ![c] =
                     [resp |-> IF e = NoErr THEN "models" ELSE "none",
                      err |-> e]]
    /\ pc' = [pc EXCEPT ![c] = "done"]
    /\ UNCHANGED <<kind, input, streamVars, delay, histVars>>
    /\ UNCHANGED <<cfg, opt, readers, sets, setBudget, active, env, msgs, snap,
                   req, attempt, lastErr, ctxDone, actx, invocations,
                   backoffs, hooks, logs, outs, seen, cancelAt>>
    /\ UNCHANGED writerVars

\* ------------------------------------------------------------------ Stream
\* Faulty variant of StreamReturns (sensitivity of C13): the goroutine goes
\* on after an error chunk.
StreamReturnsOnDone(chunk) == chunk.done

\* Faulty variant of StreamReturns (sensitivity of C12): the goroutine
\* returns after the first chunk it forwards.
StreamReturnsAlways(chunk) == TRUE

\* if chunk.Done || chunk.Error != nil { return }
StreamReturns(chunk) == chunk.done \/ chunk.err # NoErr

\* case <-streamCtx.Done(): the error chunk is built from streamCtx.Err().
StreamCtxDone(c) ==
    /\ pc[c] = "select"
    /\ actx[c] \in {"canceled", "deadline"}
    /\ held' = [held EXCEPT ![c] =
                   ErrChunk(classifyError(IF actx[c] = "deadline"
                                          THEN CtxDeadlineErr
                                          ELSE CtxCanceledErr, actx[c]))]
    /\ pc' = [pc EXCEPT ![c] = "sendLast"]
    /\ UNCHANGED <<kind, input, chunks, pos, recv, closed, consuming, delay,
                   histVars>>
    /\ UNCHANGED <<cfg, opt, readers, sets, setBudget, active, env, msgs, snap,
                   req, attempt, lastErr, ctxDone, actx, result, invocations,
                   backoffs, hooks, logs, outs, seen, cancelAt>>
    /\ UNCHANGED writerVars

\* case chunk, ok := <-chunks with ok: the chunk is taken for forwarding.
StreamChunkIn(c) ==
    /\ pc[c] = "select"
    /\ pos[c] < Len(chunks[c].seq)
    /\ held' = [held EXCEPT ![c] = chunks[c].seq[pos[c] + 1]]
    /\ pos' = [pos EXCEPT ![c] = @ + 1]
    /\ pc' = [pc EXCEPT ![c] = "send"]
    /\ UNCHANGED <<kind, input, chunks, recv, closed, consuming, delay,
                   histVars>>
    /\ UNCHANGED <<cfg, opt, readers, sets, setBudget, active, env, msgs, snap,
                   req, attempt, lastErr, ctxDone, actx, result, invocations,
                   backoffs, hooks, logs, outs, seen, cancelAt>>
    /\ UNCHANGED writerVars

\* case chunk, ok := <-chunks with !ok: the backend closed its channel; the
\* goroutine returns and the deferred close(out) runs.
StreamChunksClosed(c) ==
    /\ pc[c] = "select"
    /\ pos[c] = Len(chunks[c].seq)
    /\ chunks[c].closes
    /\ closed' = [closed EXCEPT ![c] = TRUE]
    /\ pc' = [pc EXCEPT ![c] = "done"]
    /\ wret' = [wret EXCEPT ![c] = IF @ = Running THEN NoErr ELSE @]
    /\ UNCHANGED <<kind, input, chunks, pos, held, recv, consuming, delay,
                   histVars, written>>
    /\ UNCHANGED <<cfg, opt, readers, sets, setBudget, active, env, msgs, snap,
                   req, attempt, lastErr, ctxDone, actx, result, invocations,
                   backoffs, hooks, logs, outs, seen, cancelAt>>

\* out <- chunk: out is unbuffered, the send completes when the consumer
\* receives.  After a send that ends the stream the goroutine returns and
\* the deferred close(out) runs.
StreamSend(c) ==
    /\ pc[c] \in {"send", "sendLast"}
    /\ consuming[c]
    /\ recv' = [recv EXCEPT ![c] = Append(@, held[c])]
    /\ held' = [held EXCEPT ![c] = NoChunk]
    /\ IF pc[c] = "sendLast" \/ StreamReturns(held[c])
       THEN /\ closed' = [closed EXCEPT ![c] = TRUE]
            /\ pc' = [pc EXCEPT ![c] = "done"]
       ELSE /\ pc' = [pc EXCEPT ![c] = "select"]
            /\ UNCHANGED closed
    /\ IF wret[c] = NoWriter
       THEN UNCHANGED <<writerVars, consuming>>
       ELSE \E o \in env.writes :
               LET r == StreamToWriter(written[c], held[c], o)
               IN /\ written' = [written EXCEPT ![c] = r.w]
                  /\ wret' = [wret EXCEPT ![c] =
                                 IF r.ret = Running /\ closed'[c] THEN NoErr
                                 ELSE r.ret]
                  /\ consuming' = [consuming EXCEPT ![c] = r.ret = Running]
    /\ UNCHANGED <<kind, input, chunks, pos, delay, histVars>>
    /\ UNCHANGED <<cfg, opt, readers, sets, setBudget, active, env, msgs, snap,
                   req, attempt, lastErr, ctxDone, actx, result, invocations,
                   backoffs, hooks, logs, outs, seen, cancelAt>>

\* A consumer that ranges over out itself stops receiving before out is
\* closed.
ConsumerStops(c) ==
    /\ pc[c] \in {"select", "send", "sendLast"}
    /\ consuming[c]
    /\ wret[c] = NoWriter
    /\ consuming' = [consuming EXCEPT ![c] = FALSE]
    /\ UNCHANGED <<kind, input, chunks, pos, held, recv, closed, delay,
                   histVars>>
    /\ UNCHANGED <<cfg, opt, readers, sets, setBudget, active, env, pc, msgs,
                   snap,
                   req, attempt, lastErr, ctxDone, actx, result, invocations,
                   backoffs, hooks, logs, outs, seen, cancelAt>>
    /\ UNCHANGED writerVars

\* ------------------------------------------------------------- environment
\* The caller cancels its context.
Cancel(c) ==
    /\ c \in env.cancelers
    /\ pc[c] \notin {"idle", "done"}
    /\ ~ctxDone[c]
    /\ ctxDone' = [ctxDone EXCEPT ![c] = TRUE]
    /\ actx' = [actx EXCEPT ![c] = IF @ = "live" THEN "canceled" ELSE @]
    /\ cancelAt' = [cancelAt EXCEPT ![c] =
                       IF pc[c] = "inflight" THEN invocations[c] ELSE 0]
    /\ UNCHANGED <<kind, input, streamVars, delay, histVars>>
    /\ UNCHANGED <<cfg, opt, readers, sets, setBudget, active, env, pc, msgs,
                   snap, req, attempt, lastErr, result, invocations,
                   backoffs, hooks, logs, outs, seen>>
    /\ UNCHANGED writerVars

\* Faulty variant of DeadlineExpires (sensitivity of C33): Stream hands ctx
\* to the backend without a deadline of its own; only the attempts of the
\* retry engine have one.
DeadlineOfAttemptsOnly(c) ==
    /\ pc[c] = "inflight"
    /\ actx[c] = "live"
    /\ actx' = [actx EXCEPT ![c] = "deadline"]
    /\ UNCHANGED <<kind, input, streamVars, delay, histVars>>
    /\ UNCHANGED <<cfg, opt, readers, sets, setBudget, active, env, pc, msgs,
                   snap, req, attempt, lastErr, ctxDone, result, invocations,
                   backoffs, hooks, logs, outs, seen, cancelAt>>
    /\ UNCHANGED writerVars

\* The deadline of the attempt context passes.
DeadlineExpires(c) ==
    /\ pc[c] \in {"inflight", "select", "send"}
    /\ actx[c] = "live"
    /\ actx' = [actx EXCEPT ![c] = "deadline"]
    /\ UNCHANGED <<kind, input, streamVars, delay, histVars>>
    /\ UNCHANGED <<cfg, opt, readers, sets, setBudget, active, env, pc, msgs,
                   snap, req, attempt, lastErr, ctxDone, result, invocations,
                   backoffs, hooks, logs, outs, seen, cancelAt>>
    /\ UNCHANGED writerVars

\* ------------------------------------------------------------ attempt loop
\* op(attemptCtx) returns e; the loop body runs to its return or to the
\* select of the next iteration, the hook and what it does included.
BackendReturn(c, e) ==
    /\ pc[c] = "inflight"
    /\ e \in IF kind[c] = "embed" THEN env.embedResults ELSE env.results
    /\ e = CtxCanceledErr => actx[c] = "canceled"
    /\ e = CtxDeadlineErr => actx[c] = "deadline"
    /\ \E res \in IF e = NoErr THEN {"response"} ELSE env.partials :
       LET err == IF e = NoErr THEN NoErr ELSE classifyError(e, actx[c])
           att == attempt[c]
       IN /\ outs' = [outs EXCEPT ![c] =
                         Append(@, [err |-> e, ctx |-> CtxRead(e, actx[c]),
                                    res |-> res])]
          /\ actx' = [actx EXCEPT ![c] = "none"]
          /\ IF err = NoErr
             THEN /\ logs' = [logs EXCEPT ![c] = Log(c, "info", att + 1, NoErr)]
                  /\ hooks' = [hooks EXCEPT ![c] =
                                  Emit(c, Event(HookSuccess, att + 1, NoErr))]
                  /\ RunHook(c, HookSuccess, readers)
                  /\ result' = [result EXCEPT ![c] = Returned(res, NoErr)]
                  /\ pc' = [pc EXCEPT ![c] = "done"]
                  /\ UNCHANGED <<attempt, lastErr, backoffs, delay>>
             ELSE IF ~isRetryable(err)
                     \/ att = maxAttempts(opt.maxRetries) - 1
             THEN /\ logs' = [logs EXCEPT ![c] =
                                 Log(c, "error", att + 1, sanitizeError(err))]
                  /\ hooks' = [hooks EXCEPT ![c] =
                                  Emit(c, Event(HookError, att + 1,
                                                sanitizeError(err)))]
                  /\ RunHook(c, HookError, readers)
                  /\ result' = [result EXCEPT ![c] = Returned(res, err)]
                  /\ lastErr' = [lastErr EXCEPT ![c] = err]
                  /\ pc' = [pc EXCEPT ![c] = "done"]
                  /\ UNCHANGED <<attempt, backoffs, delay>>
             ELSE IF att + 1 < maxAttempts(opt.maxRetries)
             THEN /\ attempt' = [attempt EXCEPT ![c] = att + 1]
                  /\ lastErr' = [lastErr EXCEPT ![c] = err]
                  /\ backoffs' = [backoffs EXCEPT ![c] = @ + 1]
                  /\ \E d \in retryDelays(att, opt.retryBaseDelay,
                                          opt.retryMaxDelay, env.jitters) :
                        delay' = [delay EXCEPT ![c] = d]
                  /\ logs' = [logs EXCEPT ![c] =
                                 Log(c, "warn", att + 2, sanitizeError(err))]
                  /\ hooks' = [hooks EXCEPT ![c] =
                                  Emit(c, Event(HookRetry, att + 2,
                                                sanitizeError(err)))]
                  /\ RunHook(c, HookRetry, readers)
                  /\ pc' = [pc EXCEPT ![c] = "backoff"]
                  /\ UNCHANGED result
             ELSE \* the for condition fails: return zero, lastErr
                  /\ attempt' = [attempt EXCEPT ![c] = att + 1]
                  /\ lastErr' = [lastErr EXCEPT ![c] = err]
                  /\ result' = [result EXCEPT ![c] = Returned(res, err)]
                  /\ pc' = [pc EXCEPT ![c] = "done"]
                  /\ UNCHANGED <<backoffs, logs, hooks, delay, cfg, sets>>
    /\ UNCHANGED <<kind, input, streamVars, histVars>>
    /\ UNCHANGED <<opt, readers, setBudget, active, env, msgs, snap,
                   req, ctxDone, invocations, seen, cancelAt>>
    /\ UNCHANGED writerVars

\* case <-time.After(delay): the next attempt starts.
BackoffTimer(c) ==
    /\ pc[c] = "backoff"
    /\ TimerBranch(ctxDone[c], delay[c])
    /\ actx' = [actx EXCEPT ![c] = NewAttemptCtx(ctxDone[c])]
    /\ invocations' = [invocations EXCEPT ![c] = @ + 1]
    /\ sent' = [sent EXCEPT ![c] = @ \cup {Captured(snap[c], req[c], cfg)}]
    /\ pc' = [pc EXCEPT ![c] = "inflight"]
    /\ UNCHANGED <<kind, input, streamVars, delay, lastSet, stale>>
    /\ UNCHANGED <<cfg, opt, readers, sets, setBudget, active, env, msgs, snap,
                   req, attempt, lastErr, ctxDone, result, backoffs, hooks,
                   logs, outs, seen, cancelAt>>
    /\ UNCHANGED writerVars

\* case <-ctx.Done(): return zero, ErrCanceled
BackoffCanceled(c) ==
    /\ pc[c] = "backoff"
    /\ ctxDone[c]
    /\ result' = [result EXCEPT ![c] = [resp |-> "none", err |-> ErrCanceled]]
    /\ pc' = [pc EXCEPT ![c] = "done"]
    /\ UNCHANGED <<kind, input, streamVars, delay, histVars>>
    /\ UNCHANGED <<cfg, opt, readers, sets, setBudget, active, env, msgs, snap,
                   req, attempt, lastErr, ctxDone, actx, invocations,
                   backoffs, hooks, logs, outs, seen, cancelAt>>
    /\ UNCHANGED writerVars

Next ==
    \/ SetProvider
    \/ SetModel
    \/ SetSystemPrompt
    \/ SetTools
    \/ \E c \in Calls : ChatCall(c)
    \/ \E c \in Calls : CompleteCall(c)
    \/ \E c \in Calls : StreamCall(c)
    \/ \E c \in Calls : EmbedCall(c)
    \/ \E c \in Calls : ModelsCall(c)
    \/ \E c \in Calls : SnapProvider(c)
    \/ \E c \in Calls : SnapSystemPrompt(c)
    \/ \E c \in Calls : SnapModel(c)
    \/ \E c \in Calls : ChatBody(c)
    \/ \E c \in Calls : StreamBody(c)
    \/ \E c \in Calls : EmbedBody(c)
    \/ \E c \in Calls, e \in AllResults : ModelsReturn(c, e)
    \/ \E c \in Calls : StreamCtxDone(c)
    \/ \E c \in Calls : StreamChunkIn(c)
    \/ \E c \in Calls : StreamChunksClosed(c)
    \/ \E c \in Calls : StreamSend(c)
    \/ \E c \in Calls : ConsumerStops(c)
    \/ \E c \in Calls : Cancel(c)
    \/ \E c \in Calls : DeadlineExpires(c)
    \/ \E c \in Calls, e \in AllResults : BackendReturn(c, e)
    \/ \E c \in Calls : BackoffTimer(c)
    \/ \E c \in Calls : BackoffCanceled(c)

Spec == Init /\ [][Next]_vars

SpecConc == InitConc /\ [][Next]_vars

SpecVal == InitVal /\ [][Next]_vars

SpecRetry == InitRetry /\ [][Next]_vars

\* The steps of a call of Chat, Complete or Embed: the goroutine runs, the
\* backend's operation returns, the timer of a backoff wait fires.
CallStep(c) ==
    \/ SnapProvider(c)
    \/ SnapSystemPrompt(c)
    \/ SnapModel(c)
    \/ ChatBody(c)
    \/ EmbedBody(c)
    \/ \E e \in AllResults : BackendReturn(c, e)
    \/ BackoffTimer(c)
    \/ BackoffCanceled(c)

\* The retry-option specification with calls that go on.
SpecRetryLive ==
    /\ InitRetry
    /\ [][Next]_vars
    /\ \A c \in Calls : WF_vars(CallStep(c))

\* The steps of a Stream call: the caller's snapshot, then the goroutine.
StreamStep(c) ==
    \/ SnapProvider(c)
    \/ SnapSystemPrompt(c)
    \/ SnapModel(c)
    \/ StreamBody(c)
    \/ StreamCtxDone(c)
    \/ StreamChunkIn(c)
    \/ StreamChunksClosed(c)
    \/ StreamSend(c)

\* The Go scheduler runs a goroutine that can take a step, and time passes:
\* a deadline that is set arrives.
SpecLive ==
    /\ Init
    /\ [][Next]_vars
    /\ \A c \in Calls : WF_vars(StreamStep(c)) /\ WF_vars(DeadlineExpires(c))

\* One caller of every method with a plain or an empty input, every backend
\* stream, a backend that answers or is rate limited, a few setter calls;
\* the Stream calls are consumed by a plain receiver or by StreamToWriter
\* with a Writer whose every Write can fail.
InitStream ==
    /\ InitCommon
    /\ active = {1}
    /\ setBudget = ValSets
    /\ env = [inputs |-> {<< >>, << Msg("user", 2) >>},
              results |-> {NoErr, ErrRateLimited},
              kinds |-> [c \in Calls |-> Kinds],
              prompts |-> {2},
              streams |-> BackendStreams, texts |-> {<<2>>},
              providers |-> {NilProvider, "p1"}, cancelers |-> Calls,
              tools |-> ToolLists,
              embedResults |-> {NoErr, ErrRateLimited},
              tracked |-> {}, jitters |-> {"none"}, partials |-> {"none"},
              writers |-> {NoWriter, Running}, writes |-> WriteOutcomes,
              hookSet |-> NoHookSet]
    /\ \E n \in 0..ConcRetriesBound : opt = Options(n, TRUE, TRUE)

SpecStream == InitStream /\ [][Next]_vars

\* The same scheduling as SpecLive, for the streams of InitStream.
SpecStreamLive ==
    /\ InitStream
    /\ [][Next]_vars
    /\ \A c \in Calls : WF_vars(StreamStep(c)) /\ WF_vars(DeadlineExpires(c))

\* ------------------------------------------------------------------ claims
RetryableKinds == {ErrRateLimited, ErrTimeout, ErrEmptyResponse}

\* The error the backend returned on the i-th invocation of call c.
OutErr(c, i) == outs[c][i].err
\* attemptCtx.Err() as classifyError read it for the i-th invocation.
OutCtx(c, i) == outs[c][i].ctx

HookTypes(c) == [i \in 1..Len(hooks[c]) |-> hooks[c][i].type]

\* request, k retries, then the terminal event
EventShape(k, terminal) ==
    <<HookRequest>> \o [i \in 1..k |-> HookRetry] \o <<terminal>>

\* C1: when the backend fails with a retryable kind on its first k
\* invocations (k <= max-retries) and then succeeds, and the caller's context
\* is not canceled, Chat returns the response after exactly k+1 invocations
\* with exactly k retry events between request-started and success; the call
\* never ends in failure while only k <= max-retries retryable failures have
\* been returned.
C1_RetryThenSucceed ==
    \A c \in Calls :
        LET n == Len(outs[c]) IN
        ( /\ pc[c] = "done"
          /\ ~ctxDone[c]
          /\ n >= 1
          /\ \A i \in 1..(n - 1) : OutErr(c, i) \in RetryableKinds
          /\ OutErr(c, n) \in RetryableKinds \cup {NoErr} )
        => IF OutErr(c, n) = NoErr
           THEN /\ result[c] = [resp |-> "response", err |-> NoErr]
                /\ invocations[c] = (n - 1) + 1
                /\ n - 1 <= opt.maxRetries
                /\ opt.hook => HookTypes(c) = EventShape(n - 1, HookSuccess)
           ELSE n > opt.maxRetries

C1_Witness ==
    \E c \in Calls :
        /\ pc[c] = "done" /\ ~ctxDone[c] /\ opt.hook
        /\ Len(outs[c]) = 3
        /\ OutErr(c, 1) = ErrRateLimited
        /\ OutErr(c, 2) = ErrEmptyResponse
        /\ OutErr(c, 3) = NoErr
        /\ result[c].resp = "response"

\* C2: when the backend always fails with a retryable kind and the caller's
\* context is not canceled, Chat makes exactly max-retries + 1 invocations and
\* returns the error of the last one; with max-retries = 0 that is one
\* invocation, no backoff wait and no retry event.
C2_RetryExhausted ==
    \A c \in Calls :
        LET n == Len(outs[c]) IN
        ( /\ pc[c] = "done"
          /\ ~ctxDone[c]
          /\ n >= 1
          /\ \A i \in 1..n : OutErr(c, i) \in RetryableKinds )
        => /\ invocations[c] = opt.maxRetries + 1
           /\ n = opt.maxRetries + 1
           /\ result[c] = [resp |-> "none", err |-> OutErr(c, n)]
           /\ opt.maxRetries = 0 =>
                 /\ invocations[c] = 1
                 /\ backoffs[c] = 0
                 /\ \A i \in 1..Len(hooks[c]) : hooks[c][i].type # HookRetry

C2_Witness ==
    \E c \in Calls :
        /\ pc[c] = "done" /\ ~ctxDone[c]
        /\ opt.maxRetries = 2
        /\ Len(outs[c]) = 3
        /\ \A i \in 1..3 : OutErr(c, i) = ErrRateLimited
        /\ result[c].err = ErrRateLimited

\* C3 as stated: after the backend returns a generic error no further
\* invocation is made, whatever the attempt deadline's state at that moment.
C3_Original ==
    \A c \in Calls : \A i \in 1..Len(outs[c]) :
        OutErr(c, i) = GenericErr => invocations[c] = i

\* C3 amended: a generic backend error returned while the attempt deadline
\* has not passed is never retried: the call ends at once with that error
\* (or with ErrCanceled when the caller's context was canceled), whatever
\* max-retries is.
C3_Amended ==
    \A c \in Calls : \A i \in 1..Len(outs[c]) :
        (OutErr(c, i) = GenericErr /\ OutCtx(c, i) # "deadline")
        => /\ invocations[c] = i
           /\ pc[c] = "done"
           /\ result[c].resp = "none"
           /\ result[c].err =
                 IF OutCtx(c, i) = "canceled" THEN ErrCanceled ELSE GenericErr

C3_Witness ==
    \E c \in Calls :
        /\ opt.maxRetries = 2
        /\ Len(outs[c]) = 2
        /\ OutErr(c, 1) = ErrRateLimited
        /\ OutErr(c, 2) = GenericErr /\ OutCtx(c, 2) = "live"
        /\ pc[c] = "done" /\ result[c].err = GenericErr

\* C4 as stated: a backend failure of the ErrCanceled kind ends the call with
\* ErrCanceled after exactly one invocation, for every max-retries.
C4_Original ==
    \A c \in Calls :
        (pc[c] = "done" /\ Len(outs[c]) >= 1 /\ OutErr(c, 1) = ErrCanceled)
        => (result[c].err = ErrCanceled /\ invocations[c] = 1)

\* C4 amended: a backend failure of the ErrCanceled kind returned while the
\* attempt deadline has not passed ends the call with ErrCanceled after
\* exactly one invocation, for every max-retries.
C4_Amended ==
    \A c \in Calls :
        ( /\ Len(outs[c]) >= 1
          /\ OutErr(c, 1) = ErrCanceled
          /\ OutCtx(c, 1) # "deadline" )
        => /\ pc[c] = "done"
           /\ result[c] = [resp |-> "none", err |-> ErrCanceled]
           /\ invocations[c] = 1

C4_Witness ==
    \E c \in Calls :
        /\ opt.maxRetries = 2
        /\ Len(outs[c]) = 1
        /\ OutErr(c, 1) = ErrCanceled /\ OutCtx(c, 1) = "live"
        /\ pc[c] = "done" /\ result[c].err = ErrCanceled
        /\ invocations[c] = 1

C6_Original ==
    \A c \in Calls :
        ( /\ pc[c] = "done"
          /\ cancelAt[c] > 0
          /\ OutErr(c, cancelAt[c]) # NoErr )
        => /\ result[c].err = ErrCanceled
           /\ invocations[c] = cancelAt[c]

\* C7: an attempt that the backend did not complete before the attempt's own
\* deadline (the backend gives up with the context's error, or with another
\* error that is none of the transient sentinels, after the deadline
\* passed), with the caller's context not canceled, fails with ErrTimeout,
\* never ErrCanceled, and is retried while attempts remain; a backend that
\* never completes in time is invoked max-retries + 1 times and the call
\* returns ErrTimeout.
C7_DeadlineIsTimeout ==
    \A c \in Calls :
        LET n == Len(outs[c]) IN
        ( /\ n >= 1
          /\ ~ctxDone[c]
          /\ \A i \in 1..n :
                /\ OutCtx(c, i) = "deadline"
                /\ OutErr(c, i) \in {CtxDeadlineErr, GenericErr, ErrCanceled} )
        => /\ lastErr[c] = ErrTimeout
           /\ pc[c] \in {"backoff", "inflight", "done"}
           /\ \A i \in 1..Len(hooks[c]) :
                 hooks[c][i].type \in {HookRetry, HookError}
                 => hooks[c][i].err = ErrTimeout
           /\ pc[c] = "done" =>
                 /\ invocations[c] = opt.maxRetries + 1
                 /\ result[c] = [resp |-> "none", err |-> ErrTimeout]
           /\ pc[c] # "done" => n <= opt.maxRetries

C7_Witness ==
    \E c \in Calls :
        /\ pc[c] = "done" /\ ~ctxDone[c]
        /\ opt.maxRetries = 2
        /\ Len(outs[c]) = 3
        /\ \A i \in 1..3 :
              OutErr(c, i) = CtxDeadlineErr /\ OutCtx(c, i) = "deadline"
        /\ result[c].err = ErrTimeout

\* C8 as stated: with a hook registered, every call that reached the retry
\* engine and has returned delivered request-started, zero or more retry
\* events and exactly one terminal event (success or error), on every exit
\* path.
C8_Original ==
    \A c \in Calls :
        (pc[c] = "done" /\ opt.hook /\ invocations[c] >= 1)
        => \E k \in 0..MaxRetryAttempts :
              \/ HookTypes(c) = EventShape(k, HookSuccess)
              \/ HookTypes(c) = EventShape(k, HookError)

\* The tuple (backend, model, system prompt, tool list) a call works with.
UsedTuple(c) ==
    [provider |-> snap[c].provider,
     systemPrompt |-> IF Len(req[c].messages) > 0
                         /\ req[c].messages[1].role = "system"
                      THEN "sys" ELSE "",
     model |-> req[c].model,
     tools |-> req[c].tools]

\* C9: the tuple (backend, model, system prompt, tools) a call uses is a
\* tuple the configuration held at one instant during the call's snapshot,
\* with setters running concurrently.
C9_SnapshotAtomic ==
    \A c \in Calls :
        /\ ( /\ kind[c] \in {"chat", "stream", "embed"}
             /\ pc[c] \in {"inflight", "backoff", "select", "send",
                           "sendLast", "done"} )
           => snap[c] \in seen[c]
        /\ ( /\ kind[c] \in {"chat", "stream"}
             /\ pc[c] \in {"inflight", "backoff", "select", "send"} )
           => UsedTuple(c) \in seen[c]

\* A call in flight on a configuration that two later setter calls changed,
\* while the other caller is inside snapshot().
C9_Witness ==
    \E c \in Calls, d \in Calls :
        /\ c # d
        /\ pc[c] = "inflight"
        /\ pc[d] \in SnapPcs
        /\ sets >= 2
        /\ snap[c].model # cfg.model
        /\ snap[c].provider # cfg.provider

\* C10: the configuration lock is held only inside snapshot(): never during a
\* backend call, a backoff wait or after the call; so whenever no caller is
\* inside snapshot() a setter can take the lock.
C10_NoLockDuringIO ==
    /\ \A c \in Calls : c \in readers => pc[c] \in SnapPcs
    /\ (\A c \in Calls : pc[c] \notin SnapPcs) => CanLock(readers)

\* A setter has changed the tool list while a call was blocked in the
\* backend, and another caller takes its snapshot meanwhile.
C10_Witness ==
    \E c \in Calls, d \in Calls :
        /\ c # d
        /\ pc[c] = "inflight"
        /\ snap[c].tools # cfg.tools
        /\ pc[d] \in SnapPcs
        /\ d \in readers /\ c \notin readers

\* ------------------------------------------------------------ Stream claims
\* C11: once the caller's context is canceled or the stream deadline has
\* passed, the goroutine of a Stream call terminates and closes out, also
\* when the consumer stopped receiving; it never stays blocked on a send.
C11_Original ==
    \A c \in Calls :
        (kind[c] = "stream" /\ (ctxDone[c] \/ actx[c] = "deadline"))
        ~> closed[c]

\* A chunk that ends a stream.
Terminal(chunk) == chunk.done \/ chunk.err # NoErr

\* C12: when the backend stream yields N content chunks and then a done
\* chunk, and the context is neither canceled nor past its deadline, the
\* consumer receives those chunks in the backend's order, each once, the done
\* chunk last, and out is closed exactly then.
C12_StreamInOrder ==
    \A c \in Calls :
        ( /\ kind[c] = "stream"
          /\ chunks[c] \in CompleteStreams
          /\ ~ctxDone[c]
          /\ actx[c] = "live" )
        => /\ Len(recv[c]) <= Len(chunks[c].seq)
           /\ recv[c] = SubSeq(chunks[c].seq, 1, Len(recv[c]))
           /\ closed[c] <=> recv[c] = chunks[c].seq

C12_Witness ==
    \E c \in Calls :
        /\ kind[c] = "stream"
        /\ ~ctxDone[c]
        /\ actx[c] = "live"
        /\ closed[c]
        /\ recv[c] = ContentChunks(MaxChunks) \o <<DoneChunk>>

\* C13, as claimed: no chunk is delivered after a done or error chunk, and
\* out is closed only after the consumer received a terminal chunk, whatever
\* the backend does.
C13_Original ==
    \A c \in Calls :
        kind[c] = "stream" =>
            /\ \A i \in 1..(Len(recv[c]) - 1) : ~Terminal(recv[c][i])
            /\ closed[c] =>
                  Len(recv[c]) > 0 /\ Terminal(recv[c][Len(recv[c])])

\* The backend closed its channel and sent no done or error chunk.
ClosedUnterminated(c) ==
    /\ chunks[c].closes
    /\ pos[c] = Len(chunks[c].seq)
    /\ \A i \in 1..Len(chunks[c].seq) : ~Terminal(chunks[c].seq[i])

\* C13, amended: no chunk is delivered after a done or error chunk; out is
\* closed after the consumer received a terminal chunk, or, when the backend
\* closed its channel without one, after all of the backend's chunks were
\* forwarded and with no terminal chunk.
C13_Amended ==
    \A c \in Calls :
        kind[c] = "stream" =>
            /\ \A i \in 1..(Len(recv[c]) - 1) : ~Terminal(recv[c][i])
            /\ closed[c] =>
                  \/ Len(recv[c]) > 0 /\ Terminal(recv[c][Len(recv[c])])
                  \/ ClosedUnterminated(c) /\ recv[c] = chunks[c].seq

\* A stream ended by the backend's error chunk after a content chunk.
C13_Witness ==
    \E c \in Calls :
        /\ kind[c] = "stream"
        /\ closed[c]
        /\ recv[c] = <<Chunk(1), ErrChunk(GenericErr)>>

\* C14: Stream calls the backend's stream operation at most once, whatever
\* max-retries is and whatever error the stream reports; it never enters the
\* retry engine: no attempt loop, no backoff, no hook event, no log line.
C14_StreamNoRetry ==
    \A c \in Calls :
        kind[c] = "stream" =>
            /\ invocations[c] <= 1
            /\ attempt[c] = 0
            /\ backoffs[c] = 0
            /\ hooks[c] = << >>
            /\ logs[c] = << >>
            /\ outs[c] = << >>

\* A stream that reported a retryable error under max-retries >= 1.
C14_Witness ==
    \E c \in Calls :
        /\ kind[c] = "stream"
        /\ opt.maxRetries >= 1
        /\ closed[c]
        /\ invocations[c] = 1
        /\ recv[c] = <<ErrChunk(ErrRateLimited)>>

\* -------------------------------------------------------- validation claims
\* The call has left snapshot() and run its checks.
Checked(c) == pc[c] \notin SnapPcs \cup {"idle"}

\* No message has non-empty content, an image, a tool call or a tool result.
NoContent(messages) ==
    \A i \in 1..Len(messages) :
        /\ messages[i].content = 0
        /\ messages[i].images = << >>
        /\ messages[i].calls = 0
        /\ messages[i].results = << >>

\* Chat has returned err, or Stream's goroutine delivers err as its only
\* chunk; the backend was not called and the retry engine not entered.
FailsWith(c, err) ==
    /\ invocations[c] = 0
    /\ attempt[c] = 0
    /\ backoffs[c] = 0
    /\ hooks[c] = << >>
    /\ IF kind[c] = "stream"
       THEN /\ pc[c] \in {"sendLast", "done"}
            /\ pc[c] = "sendLast" => held[c] = ErrChunk(err) /\ recv[c] = << >>
            /\ pc[c] = "done" => closed[c] /\ recv[c] = <<ErrChunk(err)>>
       ELSE /\ pc[c] = "done"
            /\ result[c] = [resp |-> "none", err |-> err]

\* C15, as claimed: for every message set without content Chat and Complete
\* return ErrEmptyInput and Stream yields it, with no backend invocation.
C15_Original ==
    \A c \in Calls :
        (kind[c] \in {"chat", "stream"} /\ Checked(c) /\ NoContent(msgs[c]))
        => FailsWith(c, ErrEmptyInput)

\* C15, amended: when the snapshot holds a backend, for every message set
\* without content Chat and Complete return ErrEmptyInput and Stream yields
\* it, with no backend invocation, whatever max-retries is.
C15_Amended ==
    \A c \in Calls :
        ( /\ kind[c] \in {"chat", "stream"}
          /\ Checked(c)
          /\ snap[c].provider # NilProvider
          /\ NoContent(msgs[c]) )
        => FailsWith(c, ErrEmptyInput)

\* Two empty messages were refused under max-retries >= 1.
C15_Witness ==
    \E c \in Calls :
        /\ kind[c] = "chat"
        /\ opt.maxRetries >= 1
        /\ msgs[c] = << Msg("user", 0), Msg("user", 0) >>
        /\ result[c] = [resp |-> "none", err |-> ErrEmptyInput]

\* Sum of the content lengths, image data lengths and tool-result content
\* lengths of a message list.
RECURSIVE AggregateSize(_)
AggregateSize(messages) ==
    IF messages = << >> THEN 0
    ELSE LET m == Head(messages) IN
         m.content + SumSeq([j \in 1..Len(m.images) |-> m.images[j].data])
         + SumSeq(m.results) + AggregateSize(Tail(messages))

\* C16, as claimed: a non-empty message set larger than maxInputLen fails
\* with ErrInputTooLong and no backend invocation; one of exactly maxInputLen
\* passes validation and the backend is invoked.
C16_Original ==
    \A c \in Calls :
        (kind[c] \in {"chat", "stream"} /\ Checked(c) /\ Len(msgs[c]) > 0)
        => /\ AggregateSize(msgs[c]) > opt.maxInputLen
              => FailsWith(c, ErrInputTooLong)
           /\ AggregateSize(msgs[c]) = opt.maxInputLen
              => invocations[c] = 1

\* C16, amended: when the snapshot holds a backend, a non-empty message set
\* larger than maxInputLen fails with ErrInputTooLong and no backend
\* invocation; one of exactly maxInputLen passes validateMessages, and the
\* backend is invoked unless validateRequest refuses the assembled request.
C16_Amended ==
    \A c \in Calls :
        ( /\ kind[c] \in {"chat", "stream"}
          /\ Checked(c)
          /\ snap[c].provider # NilProvider
          /\ Len(msgs[c]) > 0 )
        => /\ AggregateSize(msgs[c]) > opt.maxInputLen
              => FailsWith(c, ErrInputTooLong)
           /\ AggregateSize(msgs[c]) = opt.maxInputLen
              => IF validateRequest(req[c]) = NoErr
                 THEN invocations[c] >= 1
                 ELSE FailsWith(c, InvalidRequestErr)

\* Text and image data that add up to exactly maxInputLen reached the
\* backend.
C16_Witness ==
    \E c \in Calls :
        /\ kind[c] = "chat"
        /\ msgs[c] = << Msg("user", InputLimit - 1),
                        ImageMsg("image/jpeg", 1) >>
        /\ AggregateSize(msgs[c]) = opt.maxInputLen
        /\ invocations[c] = 1

\* The assembled request breaks one of the limits of the claim.
BadRequest(r) ==
    \/ r.temperature < 0 \/ r.temperature > MaxTemperature
    \/ r.presencePenalty < MinPresencePenalty
    \/ r.presencePenalty > MaxPresencePenalty
    \/ r.frequencyPenalty < MinFrequencyPenalty
    \/ r.frequencyPenalty > MaxFrequencyPenalty
    \/ r.maxTokens < 0 \/ r.maxTokens > MaxMaxTokens
    \/ \E i \in 1..Len(r.tools) :
          r.tools[i].name = 0 \/ r.tools[i].name > MaxToolNameLength
    \/ \E i \in 1..Len(r.messages) : \E j \in 1..Len(r.messages[i].images) :
          \/ ToLower(r.messages[i].images[j].mime) \notin AllowedImageMIMETypes
          \/ r.messages[i].images[j].data = 0

\* C17: when the assembled request has a temperature, penalty or max-tokens
\* out of range, a tool with an empty or too long name, or an image of a
\* MIME type other than jpeg/png/gif/webp or without data, Chat and Stream
\* fail with the invalid-request error, the backend is never invoked and
\* nothing is retried.
C17_InvalidRequest ==
    \A c \in Calls :
        ( /\ kind[c] \in {"chat", "stream"}
          /\ Checked(c)
          /\ req[c] # NoReq
          /\ BadRequest(req[c]) )
        => FailsWith(c, InvalidRequestErr)

\* A stream refused for an image without data, under max-retries >= 1.
C17_Witness ==
    \E c \in Calls :
        /\ kind[c] = "stream"
        /\ opt.maxRetries >= 1
        /\ msgs[c] = << ImageMsg("image/png", 0) >>
        /\ closed[c]
        /\ recv[c] = <<ErrChunk(InvalidRequestErr)>>

\* ------------------------------------------------- provider and capability
\* C19: when the backend the call read is nil, Chat, Complete, Embed and
\* Models return ErrNoProvider and Stream yields it; no backend operation is
\* invoked, and no validation error is reported in its place, whatever the
\* input.
C19_NoProvider ==
    \A c \in Calls :
        (kind[c] \in Kinds /\ Checked(c) /\ snap[c].provider = NilProvider)
        => FailsWith(c, ErrNoProvider)

\* Embed of no text at all on a client without backend.
C19_Witness ==
    \E c \in Calls :
        /\ kind[c] = "embed"
        /\ input[c] = << >>
        /\ snap[c].provider = NilProvider
        /\ result[c] = [resp |-> "none", err |-> ErrNoProvider]

\* C20: when the backend does not implement Embedder, Embed returns the
\* 'does not support embeddings' error with no backend invocation and no
\* retry, for every max-retries and every input.
C20_EmbedUnsupported ==
    \A c \in Calls :
        (kind[c] = "embed" /\ Checked(c) /\ snap[c].provider = "p0")
        => FailsWith(c, EmbedUnsupportedErr)

\* Embed of a text that is too long, on a backend without embeddings, under
\* max-retries >= 1.
C20_Witness ==
    \E c \in Calls :
        /\ kind[c] = "embed"
        /\ opt.maxRetries >= 1
        /\ input[c] = <<1, InputLimit + 1>>
        /\ snap[c].provider = "p0"
        /\ result[c] = [resp |-> "none", err |-> EmbedUnsupportedErr]

\* ------------------------------------------------------------- retry claims
\* C21, as claimed: when the backend's Embed fails with a retryable kind k
\* times and then succeeds, Embed returns the response after exactly k+1
\* invocations (and does not give up while k <= max-retries); an error of
\* another kind ends the call, no further invocation is made.
C21_Original ==
    \A c \in Calls :
        LET n == Len(outs[c]) IN
        kind[c] = "embed" =>
          /\ ( /\ pc[c] = "done"
               /\ n >= 1
               /\ \A i \in 1..(n - 1) : OutErr(c, i) \in RetryableKinds
               /\ OutErr(c, n) \in RetryableKinds \cup {NoErr} )
             => IF OutErr(c, n) = NoErr
                THEN /\ result[c] = [resp |-> "response", err |-> NoErr]
                     /\ invocations[c] = (n - 1) + 1
                     /\ n - 1 <= opt.maxRetries
                ELSE ctxDone[c] \/ n > opt.maxRetries
          /\ \A i \in 1..n :
                OutErr(c, i) \notin RetryableKinds \cup {NoErr}
                => invocations[c] = i /\ pc[c] = "done"

\* C21, amended: the same, for an error of another kind that the backend
\* returns while the attempt deadline has not passed.
C21_Amended ==
    \A c \in Calls :
        LET n == Len(outs[c]) IN
        kind[c] = "embed" =>
          /\ ( /\ pc[c] = "done"
               /\ n >= 1
               /\ \A i \in 1..(n - 1) : OutErr(c, i) \in RetryableKinds
               /\ OutErr(c, n) \in RetryableKinds \cup {NoErr} )
             => IF OutErr(c, n) = NoErr
                THEN /\ result[c] = [resp |-> "response", err |-> NoErr]
                     /\ invocations[c] = (n - 1) + 1
                     /\ n - 1 <= opt.maxRetries
                ELSE ctxDone[c] \/ n > opt.maxRetries
          /\ \A i \in 1..n :
                ( /\ OutErr(c, i) \notin RetryableKinds \cup {NoErr}
                  /\ OutCtx(c, i) # "deadline" )
                => /\ invocations[c] = i
                   /\ pc[c] = "done"
                   /\ result[c].resp = "none"
                   /\ result[c].err # NoErr

\* Embed succeeded on its third invocation after two rate-limit failures.
C21_Witness ==
    \E c \in Calls :
        /\ kind[c] = "embed"
        /\ pc[c] = "done"
        /\ Len(outs[c]) = 3
        /\ OutErr(c, 1) = ErrRateLimited
        /\ OutErr(c, 2) = ErrRateLimited
        /\ OutErr(c, 3) = NoErr
        /\ invocations[c] = 3
        /\ result[c] = [resp |-> "response", err |-> NoErr]

\* --------------------------------------------------- error payload claims
\* The message of err holds one of the credential-like patterns.
CredentialLike(err) ==
    LET msg == ErrorText(err) IN
    \E i \in 1..Len(msg) :
        ToLower(msg[i]) \in {"sk-", "bearer ", "api_key", "token=", "key=",
                             "authorization:"}

\* C22: no error payload delivered to the hook or to the logger has a
\* message that holds a credential-like pattern, whatever error the backend
\* returned, an error that wraps a sentinel kind included.
C22_Original ==
    \A c \in Calls :
        /\ \A i \in 1..Len(hooks[c]) : ~CredentialLike(hooks[c][i].err)
        /\ \A i \in 1..Len(logs[c]) : ~CredentialLike(logs[c][i].err)

\* The error kinds of the taxonomy: configuration errors, input errors and
\* the four signals the retry engine classifies.
ClassifiedKinds ==
    {ErrNoProvider, EmbedUnsupportedErr, ErrEmptyInput, ErrInputTooLong,
     InputExceedsErr, InvalidRequestErr, ErrRateLimited, ErrTimeout,
     ErrEmptyResponse, ErrCanceled}

\* C23: when Chat or Embed has returned an error the result is nil, whatever
\* values the backend returned on this or an earlier attempt, and the error
\* is one of the classified kinds or the very error the backend returned on
\* the last attempt; when it has returned a result, that is the value of the
\* last attempt and the error is nil.
C23_NilResultOnError ==
    \A c \in Calls :
        LET n == Len(outs[c]) IN
        (kind[c] \in {"chat", "embed"} /\ pc[c] = "done")
        => /\ result[c].err # NoErr
              => /\ result[c].resp = "none"
                 /\ \/ result[c].err \in ClassifiedKinds
                    \/ n >= 1 /\ result[c].err = OutErr(c, n)
           /\ result[c].resp # "none"
              => /\ result[c].err = NoErr
                 /\ n >= 1
                 /\ OutErr(c, n) = NoErr
                 /\ result[c].resp = outs[c][n].res

\* Chat failed with the backend's own error on its second attempt; the
\* backend had returned a value with the error on both.
C23_Witness ==
    \E c \in Calls :
        /\ kind[c] = "chat"
        /\ pc[c] = "done"
        /\ Len(outs[c]) = 2
        /\ outs[c][1].res = "partial"
        /\ outs[c][2].res = "partial"
        /\ OutErr(c, 2) = SecretErr
        /\ result[c] = [resp |-> "none", err |-> SecretErr]

\* ------------------------------------------------------------ setter claims
\* C24: a call of Chat or Stream that began after the last setter call on a
\* field returned works with the value that setter call was given: the
\* backend it reads is the one of SetProvider, and the request it builds has
\* the model of SetModel, a system message exactly when SetSystemPrompt gave
\* a non-empty prompt, and the tools of SetTools.
C24_SetterVisible ==
    \A c \in Calls :
        kind[c] \in {"chat", "stream"} =>
            /\ ( /\ Checked(c)
                 /\ lastSet.provider # Unset
                 /\ "provider" \notin stale[c] )
               => snap[c].provider = lastSet.provider
            /\ req[c] # NoReq =>
                  \A f \in {"model", "systemPrompt", "tools"} :
                      (lastSet[f] # Unset /\ f \notin stale[c])
                      => UsedTuple(c)[f] = lastSet[f]

\* SetModel and SetSystemPrompt returned, then Chat began and called the
\* backend with the new model and the new system prompt.
C24_Witness ==
    \E c \in Calls :
        /\ kind[c] = "chat"
        /\ pc[c] = "inflight"
        /\ stale[c] = {}
        /\ lastSet.model = "m2"
        /\ lastSet.systemPrompt = "sys"
        /\ req[c].model = "m2"
        /\ req[c].messages[1].role = "system"

\* ----------------------------------------------------------- request claims
\* C25: the messages of a built request are, when the snapshot's system
\* prompt is not empty, one message of role system that holds the prompt and
\* nothing else, followed by the caller's messages in their order; and the
\* caller's messages alone when it is empty.
C25_SystemPromptFirst ==
    \A c \in Calls :
        (kind[c] \in {"chat", "stream"} /\ req[c] # NoReq)
        => LET ms == req[c].messages IN
           IF snap[c].systemPrompt # ""
           THEN /\ Len(ms) = Len(msgs[c]) + 1
                /\ ms[1].role = "system"
                /\ ms[1].content = Len(snap[c].systemPrompt)
                /\ ms[1].images = << >>
                /\ ms[1].calls = 0
                /\ ms[1].results = << >>
                /\ \A i \in 1..Len(msgs[c]) : ms[i + 1] = msgs[c][i]
           ELSE ms = msgs[c]

\* A request of three messages: the system prompt set by SetSystemPrompt,
\* the caller's text, the caller's image.
C25_Witness ==
    \E c \in Calls :
        /\ kind[c] = "chat"
        /\ invocations[c] = 1
        /\ snap[c].systemPrompt = "sys"
        /\ msgs[c] = << Msg("user", InputLimit - 1),
                        ImageMsg("image/jpeg", 1) >>
        /\ Len(req[c].messages) = 3
        /\ req[c].messages[1].role = "system"
        /\ req[c].messages[3] = ImageMsg("image/jpeg", 1)

PreBackendError(c) ==
    IF snap[c].provider = NilProvider THEN ErrNoProvider
    ELSE IF NoContent(msgs[c]) THEN ErrEmptyInput
    ELSE IF AggregateSize(msgs[c]) > opt.maxInputLen THEN ErrInputTooLong
    ELSE IF BadRequest(req[c]) THEN InvalidRequestErr
    ELSE NoErr

\* C27: when Stream fails before the backend is contacted, the backend's
\* stream operation is not invoked, and out carries one chunk only, which
\* holds that error: until the consumer has received it nothing was
\* delivered and out is open, and once it has, out is closed.
C27_StreamEarlyError ==
    \A c \in Calls :
        ( /\ kind[c] = "stream"
          /\ Checked(c)
          /\ PreBackendError(c) # NoErr )
        => /\ invocations[c] = 0
           /\ chunks[c] = StreamOf(<< >>, FALSE)
           /\ sent[c] = {}
           /\ \/ /\ ~closed[c]
                 /\ recv[c] = << >>
                 /\ held[c] = ErrChunk(PreBackendError(c))
              \/ /\ closed[c]
                 /\ recv[c] = << ErrChunk(PreBackendError(c)) >>

\* A stream of too long an input delivered ErrInputTooLong and was closed.
C27_Witness ==
    \E c \in Calls :
        /\ kind[c] = "stream"
        /\ msgs[c] = << Msg("user", InputLimit + 1) >>
        /\ closed[c]
        /\ recv[c] = << ErrChunk(ErrInputTooLong) >>
        /\ invocations[c] = 0

\* ------------------------------------------------------- attempt loop claims
\* C28: every invocation of one Chat call is made on the backend of the
\* call's snapshot with the request built before the loop; request and
\* snapshot do not change while the call is in its attempt loop, whatever
\* the setters do meanwhile; and the configuration changes by setter calls
\* only, the snapshot is not written back.
C28_RequestFixed ==
    /\ [](\A c \in Calls :
            kind[c] = "chat" =>
               sent[c] \subseteq {[provider |-> snap[c].provider,
                                   request |-> req[c]]})
    /\ [][ /\ \A c \in Calls :
                pc[c] \in {"inflight", "backoff"}
                => req'[c] = req[c] /\ snap'[c] = snap[c]
           /\ cfg' # cfg => sets' = sets + 1 ]_vars

\* The second invocation of a Chat call is in flight with the request of the
\* first one, after SetModel changed the model the Client holds.
C28_Witness ==
    \E c \in Calls :
        /\ kind[c] = "chat"
        /\ pc[c] = "inflight"
        /\ invocations[c] = 2
        /\ seen[c] = {snap[c]}
        /\ cfg.model # snap[c].model
        /\ sent[c] = {[provider |-> snap[c].provider, request |-> req[c]]}
        /\ req[c].model = snap[c].model

\* The smaller of two numbers.
MinOf(x, y) == IF x < y THEN x ELSE y

\* C29: the backoff wait before attempt a >= 2 is at least d and at most
\* 1.25 * d, where d = min(baseDelay * 2^(a-2), maxDelay); so it never
\* exceeds 1.25 * maxDelay and the jitter never shortens it.  (In a backoff
\* wait the loop variable attempt is a - 1.)
C29_Original ==
    \A c \in Calls :
        pc[c] = "backoff" =>
            LET a == attempt[c] + 1
                d == MinOf(opt.retryBaseDelay * 2^(a - 2), opt.retryMaxDelay)
            IN /\ a >= 2
               /\ delay[c] >= d
               /\ 4 * delay[c] <= 5 * d
               /\ 4 * delay[c] <= 5 * opt.retryMaxDelay

\* The same bounds for the configurations in which baseDelay * 2^(a-2) is a
\* Duration: they hold, so the waits outside the bounds are those of the
\* out-of-range conversion in retryDelay.
C29_WithinRange ==
    \A c \in Calls :
        pc[c] = "backoff" /\ opt.retryBaseDelay * 2^(attempt[c] - 1) <= MaxDuration =>
            LET d == MinOf(opt.retryBaseDelay * 2^(attempt[c] - 1), opt.retryMaxDelay)
            IN /\ delay[c] >= d
               /\ 4 * delay[c] <= 5 * d

\* A backoff wait after an out-of-range conversion that is shorter than d,
\* and one that is longer than 1.25 * maxDelay.
C29_ShortWait == \E c \in Calls : pc[c] = "backoff" /\ delay[c] < 0
C29_LongWait == \E c \in Calls : pc[c] = "backoff" /\ 4 * delay[c] > 5 * opt.retryMaxDelay

\* The number of retry events among the first k events of a hook's sequence.
RECURSIVE RetryEvents(_, _)
RetryEvents(evs, k) ==
    IF k = 0 THEN 0
    ELSE RetryEvents(evs, k - 1) + (IF evs[k].type = HookRetry THEN 1 ELSE 0)

\* C30: hook attempt numbers are 1-based and agree with the invocations: the
\* first event is the request-started event with attempt 1; the retry event
\* before the i-th invocation (i >= 2) carries i, and the i-th invocation
\* comes only after it; a success or error event is the last event and
\* carries the number of backend invocations the call made.
C30_HookAttempts ==
    \A c \in Calls :
        hooks[c] # <<>> =>
            LET evs == hooks[c]
                R == RetryEvents(evs, Len(evs))
            IN /\ evs[1].type = HookRequest /\ evs[1].attempt = 1
               /\ \A k \in 2..Len(evs) :
                     /\ evs[k].type # HookRequest
                     /\ evs[k].type = HookRetry
                        => evs[k].attempt = RetryEvents(evs, k) + 1
                     /\ evs[k].type \in {HookSuccess, HookError}
                        => /\ k = Len(evs)
                           /\ evs[k].attempt = invocations[c]
                           /\ invocations[c] = R + 1
               /\ invocations[c] \in {R, R + 1}
               /\ pc[c] = "backoff" => invocations[c] = R
               /\ pc[c] = "inflight" => invocations[c] = R + 1

C30_Witness == \E c \in Calls : pc[c] = "done" /\ invocations[c] = 3 /\ Len(hooks[c]) = 4 /\ hooks[c][2].type = HookRetry /\ hooks[c][2].attempt = 2 /\ hooks[c][3].type = HookRetry /\ hooks[c][3].attempt = 3 /\ hooks[c][4].type = HookSuccess /\ hooks[c][4].attempt = 3

\* The number of lines of one level among the first k lines a call logged.
RECURSIVE LinesOf(_, _, _)
LinesOf(ls, level, k) ==
    IF k = 0 THEN 0
    ELSE LinesOf(ls, level, k - 1) + (IF ls[k].level = level THEN 1 ELSE 0)

\* C31: with a logger registered, a call through the retry engine that has
\* returned logged one warn line per retry (a backend invocation after the
\* first) and exactly one final line: an info line and no error line if it
\* succeeded, an error line and no info line if it failed.
C31_Original ==
    \A c \in Calls :
        (pc[c] = "done" /\ opt.logger /\ Retried(kind[c])
         /\ invocations[c] >= 1)
        => LET n == Len(logs[c])
           IN /\ LinesOf(logs[c], "warn", n) = invocations[c] - 1
              /\ IF result[c].err = NoErr
                 THEN /\ LinesOf(logs[c], "info", n) = 1
                      /\ LinesOf(logs[c], "error", n) = 0
                 ELSE /\ LinesOf(logs[c], "error", n) = 1
                      /\ LinesOf(logs[c], "info", n) = 0

\* The same for the calls that returned from the loop body and not from the
\* select of a backoff wait: it holds, and the final line is the last line.
C31_ReturnedFromBody ==
    \A c \in Calls :
        (pc[c] = "done" /\ opt.logger /\ Retried(kind[c])
         /\ invocations[c] >= 1 /\ backoffs[c] = invocations[c] - 1)
        => LET n == Len(logs[c])
           IN /\ LinesOf(logs[c], "warn", n) = invocations[c] - 1
              /\ n = invocations[c]
              /\ logs[c][n].level
                    = (IF result[c].err = NoErr THEN "info" ELSE "error")

\* A call canceled during a backoff wait: it failed, and its last line is
\* the warn line of a retry that was never made.
C31_NoFinalLine == \E c \in Calls : pc[c] = "done" /\ opt.logger /\ result[c].err = ErrCanceled /\ backoffs[c] = invocations[c] /\ invocations[c] >= 1 /\ logs[c][Len(logs[c])].level = "warn"

\* The chunk Stream's goroutine builds itself after provider.Stream was
\* called: the one of the streamCtx.Done() case.
OwnChunk(c) ==
    kind[c] = "stream" /\ invocations[c] = 1 /\ pc[c] = "sendLast"

C32_CanceledWitness == \E c \in Calls : kind[c] = "stream" /\ pc[c] = "done" /\ closed[c] /\ actx[c] = "canceled" /\ ctxDone[c] /\ recv[c] = <<Chunk(1), ErrChunk(ErrCanceled)>>

\* C33: a Stream call whose consumer keeps receiving gets its channel closed
\* in the end, whatever the backend's stream does, also when it never yields
\* a chunk and never closes: the stream deadline ends it with an error chunk.
C33_StreamCloses ==
    \A c \in Calls :
        (kind[c] = "stream" /\ pc[c] # "idle") ~> (closed[c] \/ ~consuming[c])

C33_Witness == \E c \in Calls : kind[c] = "stream" /\ pc[c] = "done" /\ closed[c] /\ consuming[c] /\ chunks[c] = StreamOf(<<Chunk(1)>>, FALSE) /\ ~ctxDone[c] /\ recv[c] = <<Chunk(1), ErrChunk(ErrTimeout)>> /\ actx[c] = "deadline" /\ pos[c] = 1

\* a is a prefix of b.
IsPrefix(a, b) == Len(a) <= Len(b) /\ \A i \in 1..Len(a) : a[i] = b[i]

\* The contents of the first k chunks of a sequence, one after the other;
\* with errors = FALSE the chunks that carry an error are left out.
RECURSIVE Contents(_, _, _)
Contents(cs, k, errors) ==
    IF k = 0 THEN << >>
    ELSE Contents(cs, k - 1, errors)
         \o (IF cs[k].content = 0 \/ (cs[k].err # NoErr /\ ~errors)
             THEN << >> ELSE <<cs[k].content, cs[k].content>>)

\* C34: StreamToWriter writes the content of each chunk it receives, in the
\* order of arrival; it returns nil after the done chunk or the close of the
\* channel; it returns the error of the first error chunk and has written
\* nothing of it or after it; it returns the Writer's error at the first
\* Write that fails and receives nothing more; and what it has written is
\* always a prefix of the contents of the backend stream's content chunks.
C34_StreamToWriter ==
    \A c \in Calls :
        wret[c] # NoWriter =>
            LET rc == recv[c]
                n == Len(rc)
                all == Contents(chunks[c].seq, Len(chunks[c].seq), FALSE)
            IN /\ IsPrefix(written[c], all)
               /\ wret[c] = Running
                  => /\ written[c] = Contents(rc, n, TRUE)
                     /\ \A i \in 1..n : ~Terminal(rc[i])
               /\ wret[c] = NoErr
                  => /\ written[c] = Contents(rc, n, TRUE)
                     /\ \A i \in 1..n : rc[i].err = NoErr
                     /\ closed[c] \/ (n >= 1 /\ rc[n].done)
               /\ wret[c] = WriteErr
                  => /\ n >= 1 /\ rc[n].err = NoErr
                     /\ IsPrefix(Contents(rc, n - 1, TRUE), written[c])
                     /\ IsPrefix(written[c], Contents(rc, n, TRUE))
                     /\ rc[n].content # 0
                        => written[c] # Contents(rc, n, TRUE)
               /\ wret[c] \notin {Running, NoErr, WriteErr}
                  => /\ n >= 1 /\ rc[n].err = wret[c]
                     /\ \A i \in 1..(n - 1) : rc[i].err = NoErr
                     /\ written[c] = Contents(rc, n - 1, TRUE)
               /\ wret[c] # Running => ~consuming[c] \/ closed[c]

C34_Witness == \E c \in Calls : wret[c] = WriteErr /\ recv[c] = <<Chunk(1), Chunk(2)>> /\ written[c] = <<1, 1, 2>> /\ ~consuming[c] /\ ~closed[c]

\* StreamToWriter returns nil after the done chunk, and the error of an
\* error chunk that follows a content chunk.
C34_NilWitness == \E c \in Calls : wret[c] = NoErr /\ recv[c] = <<Chunk(1), Chunk(2), DoneChunk>> /\ written[c] = <<1, 1, 2, 2>> /\ closed[c]
C34_ErrorWitness == \E c \in Calls : wret[c] = GenericErr /\ recv[c] = <<Chunk(1), ErrChunk(GenericErr)>> /\ written[c] = <<1, 1>> /\ closed[c]
C34_CloseWitness == \E c \in Calls : wret[c] = NoErr /\ recv[c] = <<Chunk(1)>> /\ written[c] = <<1, 1>> /\ closed[c]

\* An Embed call that has returned and whose snapshot held a backend with
\* the embedding capability.
EmbedReturned(c) ==
    kind[c] = "embed" /\ pc[c] = "done" /\ snap[c].provider \in Embedders

\* C35: Embed validates as Chat does: with zero texts it fails with
\* ErrEmptyInput, with a text longer than maxInputLen it fails with
\* ErrInputTooLong; in both cases the backend's Embed is never called and
\* nothing is retried.
C35_Original ==
    \A c \in Calls :
        EmbedReturned(c) =>
            /\ Len(input[c]) = 0
               => /\ Is(result[c].err, ErrEmptyInput)
                  /\ invocations[c] = 0 /\ backoffs[c] = 0
            /\ (\E i \in 1..Len(input[c]) : input[c][i] > opt.maxInputLen)
               => /\ Is(result[c].err, ErrInputTooLong)
                  /\ invocations[c] = 0 /\ backoffs[c] = 0

\* What holds of the two cases: the call fails before the backend is
\* called, with ErrEmptyInput for zero texts, with an error that is no
\* sentinel of the package for a text that is too long.
C35_FailsEarly ==
    \A c \in Calls :
        EmbedReturned(c) =>
            /\ Len(input[c]) = 0
               => result[c] = [resp |-> "none", err |-> ErrEmptyInput]
            /\ (\E i \in 1..Len(input[c]) : input[c][i] > opt.maxInputLen)
               => /\ result[c] = [resp |-> "none", err |-> InputExceedsErr]
                  /\ ~Is(result[c].err, ErrInputTooLong)
            /\ (Len(input[c]) = 0
                \/ \E i \in 1..Len(input[c]) : input[c][i] > opt.maxInputLen)
               => /\ invocations[c] = 0 /\ backoffs[c] = 0
                  /\ hooks[c] = << >> /\ logs[c] = << >>

C35_TooLongReached == \E c \in Calls : EmbedReturned(c) /\ input[c] = <<1, InputLimit + 1>> /\ result[c].err = InputExceedsErr /\ invocations[c] = 0

\* The configuration and validation errors: no backend, empty input, input
\* too long, invalid parameter, embedding not supported.
ConfigErrors ==
    {ErrNoProvider, ErrEmptyInput, ErrInputTooLong, InputExceedsErr,
     InvalidRequestErr, EmbedUnsupportedErr}

\* The inputs of a call pass the checks of its method.
PassesChecks(c) ==
    /\ snap[c].provider # NilProvider
    /\ kind[c] = "chat"
       => /\ ~NoContent(msgs[c])
          /\ AggregateSize(msgs[c]) <= opt.maxInputLen
          /\ ~BadRequest(req[c])
    /\ kind[c] = "embed"
       => /\ snap[c].provider \in Embedders
          /\ Len(input[c]) > 0
          /\ \A i \in 1..Len(input[c]) : input[c][i] <= opt.maxInputLen

\* C36: a call that fails with a configuration or validation error emits no
\* hook event and no log line, not even request-started; the first hook
\* event or log line of a call comes only after all its checks have passed,
\* with its first backend invocation.
C36_NoEventsOnInvalid ==
    \A c \in Calls :
        /\ (kind[c] # "stream" /\ pc[c] = "done"
            /\ result[c].err \in ConfigErrors)
           => hooks[c] = << >> /\ logs[c] = << >> /\ invocations[c] = 0
        /\ (kind[c] = "stream" /\ invocations[c] = 0)
           => hooks[c] = << >> /\ logs[c] = << >>
        /\ (hooks[c] # << >> \/ logs[c] # << >>)
           => /\ PassesChecks(c)
              /\ invocations[c] >= 1
              /\ opt.hook => hooks[c] # << >> /\ hooks[c][1].type = HookRequest

C36_Witness == \E c \in Calls : kind[c] = "chat" /\ pc[c] = "done" /\ opt.hook /\ opt.logger /\ result[c].err = InvalidRequestErr /\ BadRequest(req[c]) /\ ~NoContent(msgs[c]) /\ hooks[c] = << >> /\ logs[c] = << >> /\ invocations[c] = 0

\* The same for an Embed call on a backend without the embedding capability.
C36_EmbedWitness == \E c \in Calls : kind[c] = "embed" /\ pc[c] = "done" /\ opt.hook /\ opt.logger /\ result[c].err = EmbedUnsupportedErr /\ hooks[c] = << >> /\ logs[c] = << >>

\* C37: validation is decided by the caller's messages alone, whatever the
\* system prompt of the snapshot is: messages without content fail with
\* ErrEmptyInput, messages of more than maxInputLen with ErrInputTooLong,
\* and messages of at most maxInputLen (exactly maxInputLen too) pass: the
\* request is built with the system message in front and, unless one of its
\* parameters is invalid, the backend is invoked.
C37_PromptNotValidated ==
    \A c \in Calls :
        ( /\ kind[c] \in {"chat", "stream"}
          /\ Checked(c)
          /\ snap[c].provider # NilProvider )
        => /\ NoContent(msgs[c]) => FailsWith(c, ErrEmptyInput)
           /\ (~NoContent(msgs[c])
               /\ AggregateSize(msgs[c]) > opt.maxInputLen)
              => FailsWith(c, ErrInputTooLong)
           /\ (~NoContent(msgs[c])
               /\ AggregateSize(msgs[c]) <= opt.maxInputLen)
              => /\ snap[c].systemPrompt # ""
                    => /\ Len(req[c].messages) = Len(msgs[c]) + 1
                       /\ req[c].messages[1].role = "system"
                       /\ req[c].messages[1].content > 0
                 /\ ~BadRequest(req[c]) => invocations[c] >= 1

C37_Witness == \E c \in Calls : kind[c] = "chat" /\ pc[c] = "done" /\ snap[c].systemPrompt = "sys" /\ AggregateSize(msgs[c]) = opt.maxInputLen /\ AggregateSize(req[c].messages) > opt.maxInputLen /\ invocations[c] >= 1 /\ result[c].err = NoErr

\* Chat without content and with a system prompt set fails with
\* ErrEmptyInput.
C37_EmptyWitness == \E c \in Calls : kind[c] = "chat" /\ pc[c] = "done" /\ snap[c].systemPrompt = "sys" /\ msgs[c] = << Msg("user", 0) >> /\ result[c].err = ErrEmptyInput /\ invocations[c] = 0

C38_NilWitness == \E c \in Calls : kind[c] = "chat" /\ pc[c] = "done" /\ env.hookSet = [on |-> HookRequest, field |-> "provider", v |-> NilProvider] /\ cfg.provider = NilProvider /\ invocations[c] = 2 /\ sent[c] = {[provider |-> "p1", request |-> req[c]]} /\ result[c].err = NoErr

\* C39: with SetProvider(nil) racing with the calls, no operation is ever
\* invoked on a nil backend: every invocation of a call goes to the backend
\* of its snapshot, which is not nil; and a call whose snapshot holds nil
\* fails with ErrNoProvider, the retry engine and the backend's stream
\* operation not entered.
C39_NilNeverUsed ==
    \A c \in Calls :
        /\ \A x \in sent[c] :
              x.provider = snap[c].provider /\ x.provider # NilProvider
        /\ (invocations[c] >= 1 \/ attempt[c] >= 1 \/ backoffs[c] >= 1)
           => snap[c].provider # NilProvider
        /\ (kind[c] \in Kinds /\ Checked(c) /\ snap[c].provider = NilProvider)
           => FailsWith(c, ErrNoProvider) /\ sent[c] = {}

\* The second attempt of a Chat call is in flight on the backend of its
\* snapshot while the client's backend is nil.
C39_Witness == \E c \in Calls : kind[c] = "chat" /\ pc[c] = "inflight" /\ snap[c].provider = "p1" /\ cfg.provider = NilProvider /\ sets >= 1 /\ invocations[c] = 2 /\ sent[c] = {[provider |-> "p1", request |-> req[c]]}

\* A Stream call read nil while the other caller read the backend set
\* before: it delivered ErrNoProvider as its only chunk.
C39_NilWitness == \E c, d \in Calls : kind[c] = "stream" /\ pc[c] = "done" /\ snap[c].provider = NilProvider /\ recv[c] = <<ErrChunk(ErrNoProvider)>> /\ invocations[c] = 0 /\ snap[d].provider = "p1" /\ invocations[d] >= 1

====
